---- MODULE Spec2Model ----
(***************************************************************************)
(* State-machine model of the EFS CSI stress/scale orchestrator            *)
(* (test/stress-scale-tests/tests/orchestrator.py, class                   *)
(* EFSCSIOrchestrator): the resource tracker, the operation library, the   *)
(* four scenarios, run_test and _cleanup.                                  *)
(*                                                                         *)
(* The cluster is the environment.  Every cluster call, remote exec and    *)
(* log-collection step has its outcome drawn with \E from the outcomes the *)
(* call can have in the current cluster state.                             *)
(***************************************************************************)
EXTENDS Integers, Sequences, FiniteSets, TLC

(***************************************************************************)
(* Bounds of the model.                                                    *)
(***************************************************************************)
\* PVC names that can be in use (tracked or in the cluster) at one time.
MaxPvcNames == 3
\* Pod names that can be in use (tracked or in the cluster) at one time.
MaxPodNames == 4
\* Iterations of the steady-state loop before the time budget has expired.
MaxSteadyOps == 1
\* Steps of a run in which the environment departs from the normal course
\* (a cluster call fails, a wait times out, log collection raises, the user interrupts).
MaxFaults == 1
\* Such steps while _cleanup runs, in a run that met none before.
MaxCleanupFaults == 2
\* Operations in a weight table given to the roulette, and the largest weight.
MaxOps == 3
MaxWeight == 2
\* The timeouts given to a wait loop taken on its own, in seconds, and the
\* longest an API call or a diagnostics capture takes.
MinWaitTimeout == 9
MaxWaitTimeout == 10
MaxCallTime == 1
\* Operations a caller makes directly on a fresh orchestrator.
MaxDirectCalls == 3
\* The largest min_pvcs and max_pvcs the concurrent scenario is configured
\* with when it is run on its own, and the PVC names such a run can have in use.
MaxSoloPvcs == 4

(***************************************************************************)
(* Configuration (orchestrator.py:168-178 and the scenario sections).      *)
(* The values are the ones of the configuration the model runs under.      *)
(***************************************************************************)
\* self.max_pvcs
max_pvcs == 1
\* self.max_pods_per_pvc
max_pods_per_pvc == 2
\* self.total_max_pods
total_max_pods == 3
\* scenarios.many_to_one.min_pods / max_pods
m2o_min_pods == 2
m2o_max_pods == 2
\* scenarios.one_to_one.min_pairs / max_pairs
o2o_min_pairs == 2
o2o_max_pairs == 3
\* scenarios.concurrent_pvc.min_pvcs / max_pvcs
conc_min_pvcs == 2
conc_max_pvcs == 2

(***************************************************************************)
(* Names.  A name is <<prefix, id>>: the uuid4 part is opaque, so a fresh   *)
(* name takes the smallest id not in use.                                  *)
(***************************************************************************)
NoPod == <<>>
NoPvc == <<>>
PodIds == 1..MaxPodNames
PodNames == {"test-pod"} \X PodIds
PvcIds == 1..MaxSoloPvcs
Prefixes == {"test-pvc", "many2one", "one2one", "concurrent-pvc", "crash-test"}
PvcNames == Prefixes \X PvcIds

Range(f) == {f[i] : i \in DOMAIN f}

Min(S) == CHOOSE x \in S : \A y \in S : x <= y

RECURSIVE SumLens(_, _)
SumLens(f, D) == IF D = {} THEN 0 ELSE LET d == CHOOSE x \in D : TRUE IN Len(f[d]) + SumLens(f, D \ {d})

\* list.remove(x): drops the first occurrence
RECURSIVE Remove(_, _)
Remove(seq, x) == IF seq = <<>> THEN <<>> ELSE IF Head(seq) = x THEN Tail(seq) ELSE <<Head(seq)>> \o Remove(Tail(seq), x)

\* del d[k]
DelKey(f, k) == [x \in DOMAIN f \ {k} |-> f[x]]

\* ids of the PVC names in use, in the tracker or in the cluster
UsedPvcIds(s) == {n[2] : n \in Range(s.pvcs) \cup DOMAIN s.cpvc}

UsedPodIds(s) == {n[2] : n \in UNION {Range(s.pods[c]) : c \in DOMAIN s.pods} \cup DOMAIN s.cpod}

\* f"...-{uuid.uuid4().hex[:8]}": 0 when the pool of the model is exhausted
FreshPvcId(s) == IF PvcIds \ UsedPvcIds(s) = {} THEN 0 ELSE Min(PvcIds \ UsedPvcIds(s))

FreshPodId(s) == IF PodIds \ UsedPodIds(s) = {} THEN 0 ELSE Min(PodIds \ UsedPodIds(s))

\* what a call gives back: the new state, the returned value, whether it raised
R(s, ret, exc) == [s |-> s, ret |-> ret, exc |-> exc]

(***************************************************************************)
(* The cluster.  cpvc maps each existing PVC to "is terminating", cpod     *)
(* maps each existing pod to its claim and "is terminating".               *)
(***************************************************************************)
PodsUsing(s, pvc_name) == {p \in DOMAIN s.cpod : s.cpod[p].pvc = pvc_name}

\* kubernetes.io/pvc-protection: a PVC goes only when no pod uses it, so a
\* PVC can be seen gone only if every pod using it is terminating already
PvcCanGo(s, pvc_name) == \A p \in PodsUsing(s, pvc_name) : s.cpod[p].term

ClusterDropPod(s, pod_name) == [s EXCEPT !.cpod = DelKey(@, pod_name)]

ClusterDropPvc(s, pvc_name) == [s EXCEPT !.cpvc = DelKey(@, pvc_name), !.cpod = [p \in DOMAIN @ \ PodsUsing(s, pvc_name) |-> @[p]]]

\* the create call was accepted: the object exists
\* creq observes the last create request: what it was for and whether the
\* cluster accepted it
Asked(s, kind, name, accepted) == [s EXCEPT !.creq = [kind |-> kind, name |-> name, accepted |-> accepted]]

ClusterAddPvc(s, pvc_name) == [Asked(s, "pvc", pvc_name, TRUE) EXCEPT !.cpvc = [n \in DOMAIN @ \cup {pvc_name} |-> IF n = pvc_name THEN FALSE ELSE @[n]]]

ClusterAddPod(s, pod_name, pvc_name) == [Asked(s, "pod", pod_name, TRUE) EXCEPT !.cpod = [p \in DOMAIN @ \cup {pod_name} |-> IF p = pod_name THEN [pvc |-> pvc_name, term |-> FALSE] ELSE @[p]]]

\* outcomes of core_v1.create_namespaced_persistent_volume_claim: in a run of
\* run_test at most MaxPvcNames names are in use
CreatePvcOutcomes(s) == IF Cardinality(UsedPvcIds(s)) >= MaxPvcNames THEN {"err"} ELSE {"ok", "err"}

\* the same for a scenario run on its own
SoloCreatePvcOutcomes(s) == IF FreshPvcId(s) = 0 THEN {"err"} ELSE {"ok", "err"}

\* outcomes of core_v1.create_namespaced_pod
CreatePodOutcomes(s) == IF FreshPodId(s) = 0 THEN {"err"} ELSE {"ok", "err"}

\* outcomes of _wait_for_pvc_bound: not_found is the claim deleted mid-wait
BoundOutcomes == {"bound", "timeout", "not_found", "raise"}

\* outcomes of _wait_for_pod_ready
ReadyOutcomes == {"ready", "timeout", "failed", "not_found", "raise"}

(***************************************************************************)
(* Counters (orchestrator.py:188-203, 944-962).                            *)
(***************************************************************************)
Zero2 == [success |-> 0, fail |-> 0]

Zero3 == [runs |-> 0, success |-> 0, fail |-> 0]

OpSuccess(s, op) == [s EXCEPT !.results[op].success = @ + 1]

OpFail(s, op) == [s EXCEPT !.results[op].fail = @ + 1]

_track_rw_success(s, op_type) == IF op_type = "write" THEN OpSuccess(s, "verify_write") ELSE OpSuccess(s, "verify_read")

_track_rw_failure(s, op_type) == IF op_type = "write" THEN OpFail(s, "verify_write") ELSE OpFail(s, "verify_read")

_track_scenario_success(s, scenario) == [s EXCEPT !.scenarios[scenario].runs = @ + 1, !.scenarios[scenario].success = @ + 1]

_track_scenario_failure(s, scenario) == [s EXCEPT !.scenarios[scenario].runs = @ + 1, !.scenarios[scenario].fail = @ + 1]

ScenarioRun(s, scenario) == [s EXCEPT !.scenarios[scenario].runs = @ + 1]

ScenarioSuccess(s, scenario) == [s EXCEPT !.scenarios[scenario].success = @ + 1]

ScenarioFail(s, scenario) == [s EXCEPT !.scenarios[scenario].fail = @ + 1]

(***************************************************************************)
(* Resource tracker.                                                       *)
(***************************************************************************)
\* self.pvcs.append(pvc_name); self.pods[pvc_name] = []
TrackPvc(s, pvc_name) == [s EXCEPT !.pvcs = Append(@, pvc_name), !.pods = [c \in DOMAIN @ \cup {pvc_name} |-> IF c = pvc_name THEN <<>> ELSE @[c]]]

\* _track_new_pod without self.current_pod_count += 1
TrackNewPodUncounted(s, pvc_name, pod_name) == OpSuccess([s EXCEPT !.pods[pvc_name] = Append(@, pod_name)], "attach_pod")

_track_new_pod(s, pvc_name, pod_name) == OpSuccess([s EXCEPT !.pods[pvc_name] = Append(@, pod_name), !.current_pod_count = @ + 1], "attach_pod")

_untrack_deleted_pod(s, pvc_name, pod_name) ==
    IF pvc_name \in DOMAIN s.pods /\ pod_name \in Range(s.pods[pvc_name])
    THEN [s EXCEPT !.pods[pvc_name] = Remove(@, pod_name), !.current_pod_count = @ - 1]
    ELSE s

\* _untrack_deleted_pvc without del self.pods[pvc_name]
UntrackPvcKeepsList(s, pvc_name) ==
    IF pvc_name \in Range(s.pvcs) THEN [s EXCEPT !.pvcs = Remove(@, pvc_name)] ELSE s

\* dropped observes what del self.pods[pvc_name] throws away
_untrack_deleted_pvc(s, pvc_name) ==
    LET s1 == IF pvc_name \in Range(s.pvcs) THEN [s EXCEPT !.pvcs = Remove(@, pvc_name)] ELSE s
    IN  IF pvc_name \in DOMAIN s1.pods THEN [s1 EXCEPT !.pods = DelKey(@, pvc_name), !.dropped = s1.pods[pvc_name]] ELSE s1

\* [(pvc, pod) for pvc, pod_list in self.pods.items() for pod in pod_list]
AllPods(s) == {cp \in (DOMAIN s.pods) \X PodNames : cp[2] \in Range(s.pods[cp[1]])}

(***************************************************************************)
(* Wait state machines, by outcome.                                        *)
(***************************************************************************)
\* waited observes the last wait: what was awaited, how the wait ended, what
\* it returned, and whether it captured diagnostics of the awaited resource
\* on its way out (the capture _wait_for_pod_ready makes once, past half of
\* its timeout, while it goes on polling is not part of the way out)
Waited(s, kind, name, w, ret, diag) == [s EXCEPT !.waited = [kind |-> kind, name |-> name, outcome |-> w, ret |-> ret, diag |-> diag]]

\* timeout: a warning is logged, nothing is captured
_wait_for_pvc_bound(s, pvc_name, w) ==
    CASE w = "bound" -> R(Waited(s, "pvc_bound", pvc_name, w, TRUE, FALSE), TRUE, FALSE)
      [] w = "timeout" -> R(Waited(s, "pvc_bound", pvc_name, w, FALSE, FALSE), FALSE, FALSE)
      [] w = "not_found" -> R(Waited([s EXCEPT !.cpvc = DelKey(@, pvc_name)], "pvc_bound", pvc_name, w, FALSE, FALSE), FALSE, FALSE)
      [] OTHER -> R(Waited(s, "pvc_bound", pvc_name, "raise", FALSE, FALSE), FALSE, TRUE)

\* _wait_for_pod_ready capturing diagnostics on every failing way out
WaitForPodReadyAlwaysDiag(s, pod_name, w) ==
    CASE w = "ready" -> R(Waited(s, "pod_ready", pod_name, w, TRUE, FALSE), TRUE, FALSE)
      [] w \in {"timeout", "failed"} -> R(Waited(s, "pod_ready", pod_name, w, FALSE, TRUE), FALSE, FALSE)
      [] w = "not_found" -> R(Waited(ClusterDropPod(s, pod_name), "pod_ready", pod_name, w, FALSE, TRUE), FALSE, FALSE)
      [] OTHER -> R(Waited(s, "pod_ready", pod_name, "raise", FALSE, FALSE), FALSE, TRUE)

\* timeout and failure phase: _log_pod_diagnostics(pod_name) before return False
_wait_for_pod_ready(s, pod_name, w) ==
    CASE w = "ready" -> R(Waited(s, "pod_ready", pod_name, w, TRUE, FALSE), TRUE, FALSE)
      [] w \in {"timeout", "failed"} -> R(Waited(s, "pod_ready", pod_name, w, FALSE, TRUE), FALSE, FALSE)
      [] w = "not_found" -> R(Waited(ClusterDropPod(s, pod_name), "pod_ready", pod_name, w, FALSE, FALSE), FALSE, FALSE)
      [] OTHER -> R(Waited(s, "pod_ready", pod_name, "raise", FALSE, FALSE), FALSE, TRUE)

\* the pod is terminating when the wait starts
\* gone: the poll is answered 404
_wait_for_pod_deleted(s, pod_name, w) ==
    CASE w = "gone" -> R(Waited(ClusterDropPod(s, pod_name), "pod_deleted", pod_name, "not_found", TRUE, FALSE), TRUE, FALSE)
      [] w = "timeout" -> R(Waited(s, "pod_deleted", pod_name, w, FALSE, FALSE), FALSE, FALSE)
      [] OTHER -> R(Waited(s, "pod_deleted", pod_name, "raise", FALSE, FALSE), FALSE, TRUE)

\* the PVC is terminating when the wait starts; it cannot go while a live pod uses it
_wait_for_pvc_deleted(s, pvc_name, w) ==
    CASE w = "gone" /\ PvcCanGo(s, pvc_name) -> R(Waited(ClusterDropPvc(s, pvc_name), "pvc_deleted", pvc_name, "not_found", TRUE, FALSE), TRUE, FALSE)
      [] w = "raise" -> R(Waited(s, "pvc_deleted", pvc_name, "raise", FALSE, FALSE), FALSE, TRUE)
      [] OTHER -> R(Waited(s, "pvc_deleted", pvc_name, "timeout", FALSE, FALSE), FALSE, FALSE)

(***************************************************************************)
(* create-claim (orchestrator.py:363-455).                                 *)
(***************************************************************************)
\* _create_and_wait_for_pvc tracking the PVC once it is bound
CreateAndWaitTrackWhenBound(s, pvc_name, c, w) ==
    IF c # "ok" THEN R(Asked(s, "pvc", pvc_name, FALSE), FALSE, TRUE)
    ELSE LET r == _wait_for_pvc_bound(OpSuccess(ClusterAddPvc(s, pvc_name), "create_pvc"), pvc_name, w)
         IN  IF r.ret THEN R(TrackPvc(r.s, pvc_name), TRUE, FALSE) ELSE r

\* _create_and_wait_for_pvc tracking the PVC before the create call
CreateAndWaitTrackFirst(s, pvc_name, c, w) ==
    IF c # "ok" THEN R(Asked(TrackPvc(s, pvc_name), "pvc", pvc_name, FALSE), FALSE, TRUE)
    ELSE _wait_for_pvc_bound(OpSuccess(TrackPvc(ClusterAddPvc(s, pvc_name), pvc_name), "create_pvc"), pvc_name, w)

\* c: outcome of the create call, w: outcome of the bind wait
_create_and_wait_for_pvc(s, pvc_name, c, w) ==
    IF c # "ok" THEN R(Asked(s, "pvc", pvc_name, FALSE), FALSE, TRUE)
    ELSE _wait_for_pvc_bound(OpSuccess(TrackPvc(ClusterAddPvc(s, pvc_name), pvc_name), "create_pvc"), pvc_name, w)

\* _create_pvc with the ceiling test off by one (> for >=)
CreatePvcPastCeiling(s, c, w) ==
    IF Len(s.pvcs) > max_pvcs THEN R(s, FALSE, FALSE)
    ELSE LET r == _create_and_wait_for_pvc(s, <<"test-pvc", FreshPvcId(s)>>, c, w)
         IN  IF r.exc THEN R(OpFail(r.s, "create_pvc"), FALSE, FALSE) ELSE R(r.s, FALSE, FALSE)

_create_pvc(s, c, w) ==
    IF Len(s.pvcs) >= max_pvcs THEN R(s, FALSE, FALSE)
    ELSE LET r == _create_and_wait_for_pvc(s, <<"test-pvc", FreshPvcId(s)>>, c, w)
         IN  IF r.exc THEN R(OpFail(r.s, "create_pvc"), FALSE, FALSE) ELSE R(r.s, FALSE, FALSE)

(***************************************************************************)
(* attach-unit (orchestrator.py:457-491).                                  *)
(***************************************************************************)
\* _select_pvc_for_pod with the per-claim test off by one (> for >=)
SelectPvcPastCeiling(s, pvc_name, pick) ==
    LET chosen == IF pvc_name = NoPvc \/ pvc_name \notin Range(s.pvcs) THEN pick ELSE pvc_name
    IN  IF Len(s.pods[chosen]) > max_pods_per_pvc THEN NoPvc ELSE chosen

\* pick: the value of random.choice(self.pvcs)
_select_pvc_for_pod(s, pvc_name, pick) ==
    LET chosen == IF pvc_name = NoPvc \/ pvc_name \notin Range(s.pvcs) THEN pick ELSE pvc_name
    IN  IF Len(s.pods[chosen]) >= max_pods_per_pvc THEN NoPvc ELSE chosen

_attach_pod(s, pvc_name, pick, c, w) ==
    IF s.pvcs = <<>> THEN R(s, NoPod, FALSE)
    ELSE IF s.current_pod_count >= total_max_pods THEN R(s, NoPod, FALSE)
    ELSE LET chosen == _select_pvc_for_pod(s, pvc_name, pick)
             pod_name == <<"test-pod", FreshPodId(s)>>
         IN  IF chosen = NoPvc THEN R(s, NoPod, FALSE)
             ELSE IF c # "ok" THEN R(OpFail(Asked(s, "pod", pod_name, FALSE), "attach_pod"), NoPod, FALSE)
             ELSE LET r == _wait_for_pod_ready(_track_new_pod(ClusterAddPod(s, pod_name, chosen), chosen, pod_name), pod_name, w)
                  IN  IF r.exc THEN R(OpFail(r.s, "attach_pod"), NoPod, FALSE)
                      ELSE IF ~r.ret THEN R(r.s, NoPod, FALSE)
                      ELSE R(r.s, pod_name, FALSE)

(***************************************************************************)
(* delete-unit (orchestrator.py:710-762).                                  *)
(***************************************************************************)
\* what one delete-and-wait does: the delete call fails, or it is accepted
\* and the wait sees the resource gone, times out or raises
DelOutcomes == {"err", "gone", "timeout", "raise"}

\* pick: the value of random.choice(all_pods)
_select_pod_for_deletion(s, pod_name, pvc_name, pick) ==
    IF pod_name = NoPod \/ pvc_name = NoPvc
    THEN IF AllPods(s) = {} THEN <<NoPvc, NoPod>> ELSE pick
    ELSE IF pvc_name \notin DOMAIN s.pods \/ pod_name \notin Range(s.pods[pvc_name]) THEN <<NoPvc, NoPod>>
    ELSE <<pvc_name, pod_name>>

\* core_v1.delete_namespaced_pod: raises (404) when the pod is absent
\* dels observes the delete requests sent: <<kind, grace_period_seconds=0>>
Sent(s, kind, force) == [s EXCEPT !.dels = @ \cup {<<kind, force>>}]

\* sweep observes one pass of _cleanup_resources: the units tracked when the
\* pass began and, in order, the delete requests made since: <<kind, name>>
NoSweep == [on |-> FALSE, units |-> {}, reqs |-> <<>>]

BeginSweep(s) == [s EXCEPT !.sweep = [on |-> TRUE, units |-> UNION {Range(s.pods[c]) : c \in DOMAIN s.pods}, reqs |-> <<>>]]

Requested(s, kind, name) == IF s.sweep.on THEN [s EXCEPT !.sweep.reqs = Append(@, <<kind, name>>)] ELSE s

_delete_pod_k8s(s, pod_name, force, d) ==
    IF pod_name \notin DOMAIN s.cpod \/ d = "err" THEN R(Sent(Requested(s, "pod", pod_name), "pod", force), FALSE, TRUE)
    ELSE R(Sent(Requested([s EXCEPT !.cpod[pod_name].term = TRUE], "pod", pod_name), "pod", force), TRUE, FALSE)

\* _delete_pod untracking the pod when its deletion wait timed out as well
DeletePodUntrackOnTimeout(s, pod_name, pvc_name, force, pick, d) ==
    LET sel == _select_pod_for_deletion(s, pod_name, pvc_name, pick)
        r1 == _delete_pod_k8s(s, sel[2], force, d)
        r2 == _wait_for_pod_deleted(r1.s, sel[2], d)
    IN  IF sel[2] = NoPod THEN R(s, FALSE, FALSE)
        ELSE IF r1.exc THEN R(OpFail(r1.s, "delete_pod"), FALSE, FALSE)
        ELSE IF r2.exc THEN R(OpFail(r2.s, "delete_pod"), FALSE, FALSE)
        ELSE IF ~r2.ret THEN R(_untrack_deleted_pod(r2.s, sel[1], sel[2]), FALSE, FALSE)
        ELSE R(OpSuccess(_untrack_deleted_pod(r2.s, sel[1], sel[2]), "delete_pod"), TRUE, FALSE)

_delete_pod(s, pod_name, pvc_name, force, pick, d) ==
    LET sel == _select_pod_for_deletion(s, pod_name, pvc_name, pick)
        r1 == _delete_pod_k8s(s, sel[2], force, d)
        r2 == _wait_for_pod_deleted(r1.s, sel[2], d)
    IN  IF sel[2] = NoPod THEN R(s, FALSE, FALSE)
        ELSE IF r1.exc THEN R(OpFail(r1.s, "delete_pod"), FALSE, FALSE)
        ELSE IF r2.exc THEN R(OpFail(r2.s, "delete_pod"), FALSE, FALSE)
        ELSE IF ~r2.ret THEN R(r2.s, FALSE, FALSE)
        ELSE R(OpSuccess(_untrack_deleted_pod(r2.s, sel[1], sel[2]), "delete_pod"), TRUE, FALSE)

(***************************************************************************)
(* delete-claim (orchestrator.py:764-820).                                 *)
(***************************************************************************)
\* pick: the value of random.choice(self.pvcs)
_select_pvc_for_deletion(s, pvc_name, pick) ==
    IF s.pvcs = <<>> THEN NoPvc
    ELSE IF pvc_name = NoPvc \/ pvc_name \notin Range(s.pvcs) THEN pick
    ELSE pvc_name

\* pvcdel observes the last _delete_pvc that chose a claim: the claim, its
\* unit list when it was chosen, the units _delete_pod was called for, and,
\* once the delete request is made, the unit list at that moment, whether the
\* cluster accepted the request and whether the deletion wait followed
NoPvcDel == [name |-> NoPvc, before |-> <<>>, calls |-> <<>>, sent |-> FALSE, accepted |-> FALSE, units |-> <<>>, wait |-> FALSE]

UnitsOf(s, pvc_name) == IF pvc_name \in DOMAIN s.pods THEN s.pods[pvc_name] ELSE <<>>

\* for pod_name in list(self.pods[pvc_name]): self._delete_pod(pod_name, pvc_name)
\* todo: the copy of the list; po: the outcome of each pod's delete-and-wait
RECURSIVE DeletePodsLoop(_, _, _, _)
DeletePodsLoop(s, pvc_name, todo, po) ==
    IF todo = <<>> THEN s
    ELSE DeletePodsLoop(_delete_pod([s EXCEPT !.pvcdel.calls = Append(@, Head(todo))], Head(todo), pvc_name, FALSE, <<NoPvc, NoPod>>, po[Head(todo)]).s, pvc_name, Tail(todo), po)

\* _delete_all_pods_for_pvc deleting the first unit of the list only
DeleteFirstPodOnly(s, pvc_name, po) ==
    IF pvc_name \in DOMAIN s.pods /\ s.pods[pvc_name] # <<>> THEN DeletePodsLoop(s, pvc_name, <<Head(s.pods[pvc_name])>>, po) ELSE s

_delete_all_pods_for_pvc(s, pvc_name, po) ==
    IF pvc_name \in DOMAIN s.pods /\ s.pods[pvc_name] # <<>> THEN DeletePodsLoop(s, pvc_name, s.pods[pvc_name], po) ELSE s

\* core_v1.delete_namespaced_persistent_volume_claim: raises (404) when the PVC is absent
_delete_pvc_k8s(s, pvc_name, force, d) ==
    LET s1 == Requested([s EXCEPT !.pvcdel.sent = TRUE, !.pvcdel.units = UnitsOf(s, pvc_name)], "pvc", pvc_name)
    IN  IF pvc_name \notin DOMAIN s.cpvc \/ d = "err" THEN R(Sent(s1, "pvc", force), FALSE, TRUE)
        ELSE R(Sent([s1 EXCEPT !.cpvc[pvc_name] = TRUE, !.pvcdel.accepted = TRUE], "pvc", force), TRUE, FALSE)

_delete_pvc(s, pvc_name, force, pick, po, d) ==
    LET chosen == _select_pvc_for_deletion(s, pvc_name, pick)
        s0 == [s EXCEPT !.pvcdel = [NoPvcDel EXCEPT !.name = chosen, !.before = UnitsOf(s, chosen)]]
        s1 == _delete_all_pods_for_pvc(s0, chosen, po)
        r1 == _delete_pvc_k8s(s1, chosen, force, d)
        r2 == _wait_for_pvc_deleted([r1.s EXCEPT !.pvcdel.wait = TRUE], chosen, d)
    IN  IF chosen = NoPvc THEN R(s, FALSE, FALSE)
        ELSE IF r1.exc THEN R(OpFail(r1.s, "delete_pvc"), FALSE, FALSE)
        ELSE IF r2.exc THEN R(OpFail(r2.s, "delete_pvc"), FALSE, FALSE)
        ELSE IF ~r2.ret THEN R(r2.s, FALSE, FALSE)
        ELSE R(OpSuccess(_untrack_deleted_pvc(r2.s, chosen), "delete_pvc"), TRUE, FALSE)

(***************************************************************************)
(* verify-readwrite (orchestrator.py:822-942).                             *)
(***************************************************************************)
\* [(pvc, pods) for pvc, pods in self.pods.items() if len(pods) >= 2]
shared_pvcs(s) == {c \in DOMAIN s.pods : Len(s.pods[c]) >= 2}

\* what the write exec, the read exec and the metadata ls do:
\*   write_fail     the write exec fails (CalledProcessError)
\*   write_raise    _run_write_op raises something else
\*   read_ok        the reader sees the content; the ls returns or fails with CalledProcessError
\*   read_ok_ls_raise  the reader sees the content; _run_metadata_ls raises something else
\*   read_mismatch  the reader's output does not contain the content
\*   read_fail      the read exec fails (CalledProcessError)
\*   read_raise     _run_read_op raises something else
RwOutcomes == {"write_fail", "write_raise", "read_ok", "read_ok_ls_raise", "read_mismatch", "read_fail", "read_raise"}

_verify_readwrite(s, o) ==
    LET failed == _track_scenario_failure(_track_rw_failure(s, "write"), "shared_volume_rw")
        written == _track_rw_success(s, "write")
    IN  IF shared_pvcs(s) = {} THEN R(s, FALSE, FALSE)
        ELSE CASE o \in {"write_fail", "write_raise"} -> R(failed, FALSE, FALSE)
               [] o = "read_ok" -> R(_track_scenario_success(_track_rw_success(written, "read"), "shared_volume_rw"), FALSE, FALSE)
               [] o = "read_ok_ls_raise" -> R(_track_scenario_failure(_track_rw_failure(_track_scenario_success(_track_rw_success(written, "read"), "shared_volume_rw"), "write"), "shared_volume_rw"), FALSE, FALSE)
               [] o \in {"read_mismatch", "read_fail"} -> R(_track_scenario_failure(_track_rw_failure(written, "read"), "shared_volume_rw"), FALSE, FALSE)
               [] OTHER -> R(_track_scenario_failure(_track_rw_failure(written, "write"), "shared_volume_rw"), FALSE, FALSE)

(***************************************************************************)
(* Scenario helpers (orchestrator.py:1034-1507, 2415-2558).                *)
(***************************************************************************)
\* returns the PVC name, or None (NoPvc); does not count in results
_create_many_to_one_pvc(s, c, w) ==
    LET pvc_name == <<"many2one", FreshPvcId(s)>>
        r == _wait_for_pvc_bound(TrackPvc(ClusterAddPvc(s, pvc_name), pvc_name), pvc_name, w)
    IN  IF c # "ok" THEN R(Asked(s, "pvc", pvc_name, FALSE), NoPvc, FALSE)
        ELSE IF r.exc \/ ~r.ret THEN R(r.s, NoPvc, FALSE)
        ELSE R(r.s, pvc_name, FALSE)

\* returns (pvc_name, pod_name), or None (<<>>); c2, w2: the pod's create call and ready wait
_create_one_to_one_pair(s, c, w, c2, w2) ==
    LET pvc_name == <<"one2one", FreshPvcId(s)>>
        r == _wait_for_pvc_bound(TrackPvc(ClusterAddPvc(s, pvc_name), pvc_name), pvc_name, w)
        a == _attach_pod(r.s, pvc_name, pvc_name, c2, w2)
    IN  IF c # "ok" THEN R(Asked(s, "pvc", pvc_name, FALSE), <<>>, FALSE)
        ELSE IF r.exc \/ ~r.ret THEN R(r.s, <<>>, FALSE)
        ELSE IF a.ret # NoPod THEN R(a.s, <<pvc_name, a.ret>>, FALSE)
        ELSE R(a.s, <<>>, FALSE)

_create_pvc_for_concurrent(s, pvc_name, c, w) ==
    LET r == _wait_for_pvc_bound(OpSuccess(TrackPvc(ClusterAddPvc(s, pvc_name), pvc_name), "create_pvc"), pvc_name, w)
    IN  IF c # "ok" THEN R(OpFail(Asked(s, "pvc", pvc_name, FALSE), "create_pvc"), FALSE, FALSE)
        ELSE IF r.exc THEN R(OpFail(r.s, "create_pvc"), FALSE, FALSE)
        ELSE R(r.s, r.ret, FALSE)

\* no try: what the create call raises goes to the scenario
_create_crash_test_pvc(s, c) ==
    LET pvc_name == <<"crash-test", FreshPvcId(s)>>
    IN  IF c # "ok" THEN R(Asked(s, "pvc", pvc_name, FALSE), NoPvc, TRUE)
        ELSE R([OpSuccess(TrackPvc(ClusterAddPvc(s, pvc_name), pvc_name), "create_pvc") EXCEPT !.crash_test_pvc_name = pvc_name], pvc_name, FALSE)

\* rw: _verify_single_pod_readwrite returned True.  When the bind wait fails,
\* self._run_pod_diagnostics_commands() is called without its pod_name: TypeError
_verify_crash_test_pvc_and_pod(s, w, c2, w2, rw) ==
    LET pvc_name == s.crash_test_pvc_name
        r == _wait_for_pvc_bound(s, pvc_name, w)
        a == _attach_pod(r.s, pvc_name, pvc_name, c2, w2)
    IN  IF pvc_name = NoPvc THEN R(s, FALSE, FALSE)
        ELSE IF r.exc \/ ~r.ret THEN R(r.s, FALSE, TRUE)
        ELSE IF a.ret = NoPod THEN R(a.s, FALSE, FALSE)
        ELSE R(a.s, rw, FALSE)

\* What the scenarios write and what a reader's cat can print, as words:
\* test_content is one word, the output any text.
test_content == <<"content">>

ReadOutputs == {<<>>, <<"content">>, <<"other">>, <<"other", "content">>}

\* test_content in read_result
Contains(sub, text) == \E i \in 1..(Len(text) - Len(sub) + 1) : SubSeq(text, i, i + Len(sub) - 1) = sub

\* one write exec followed by one read exec: either can fail (CalledProcessError)
RwExecs == {[wr |-> "ok", rd |-> "ok", out |-> o] : o \in ReadOutputs} \cup {[wr |-> "fail", rd |-> "ok", out |-> <<>>], [wr |-> "ok", rd |-> "fail", out |-> <<>>]}

NoRw == [scenario |-> "none", n |-> 0, units |-> <<>>, writer |-> NoPod, reader |-> NoPod, execs |-> <<>>, ok |-> FALSE]

\* rwtest observes the last read/write test of a scenario
\* wp: <<writer_pod, reader_pod>> as drawn by random.choice; x: what the execs do
_test_many_to_one_rw(s, l, wp, x) ==
    LET ok == x.wr = "ok" /\ x.rd = "ok" /\ Contains(test_content, x.out)
    IN  R([s EXCEPT !.rwtest = [scenario |-> "many_to_one", n |-> l.n, units |-> l.list, writer |-> wp[1], reader |-> wp[2], execs |-> <<x>>, ok |-> ok]], ok, FALSE)

\* the pairs are tested in order up to the first one that fails; xs: what the
\* execs of each pair do
RECURSIVE OneToOneLoop(_, _, _)
OneToOneLoop(pairs, xs, k) ==
    IF k > Len(pairs) THEN k - 1
    ELSE IF xs[k].wr = "ok" /\ xs[k].rd = "ok" /\ Contains(test_content, xs[k].out) THEN OneToOneLoop(pairs, xs, k + 1)
    ELSE k

_test_one_to_one_rw(s, l, xs) ==
    LET k == OneToOneLoop(l.list, xs, 1)
        ok == \A j \in 1..k : xs[j].wr = "ok" /\ xs[j].rd = "ok" /\ Contains(test_content, xs[j].out)
    IN  R([s EXCEPT !.rwtest = [scenario |-> "one_to_one", n |-> l.n, units |-> l.list, writer |-> NoPod, reader |-> NoPod, execs |-> SubSeq(xs, 1, k), ok |-> ok]], ok, FALSE)

\* _handle_unexpected_test_error: lg is what collect_logs_on_test_failure does
LogOutcomes == {"ok", "raise"}

_handle_unexpected_test_error(s, lg) == R(s, FALSE, lg = "raise")

(***************************************************************************)
(* The wait loops, poll by poll (orchestrator.py:1509-1608, 1768-1855).    *)
(* Time is in seconds from start_time.                                     *)
(***************************************************************************)
\* time.sleep(2)
PollSleep == 2

\* w.now: time.time() - start_time; polls: status reads made; sleeps, slept:
\* the time.sleep calls made since the last status read and their sum;
\* snaps: mid-wait diagnostic snapshots taken; elapsed: the value the last
\* iteration computed; seen: the answer to the last status read; terminal:
\* a read has answered phase Failed or Unknown; diag: diagnostics captured on
\* the way out; ret: "none" while the loop runs
NoWait == [kind |-> "none", timeout |-> 0, now |-> 0, polls |-> 0, sleeps |-> 0, slept |-> 0, diagnostic_logged |-> FALSE, snaps |-> 0, elapsed |-> 0, seen |-> <<>>, terminal |-> FALSE, diag |-> FALSE, ret |-> "none"]

\* what a status read is answered: 200 with a phase (and, for a pod, the
\* Ready condition), 404, another ApiException (500), or an exception that
\* is no ApiException (0)
PodAnswers == [code : {200}, phase : {"Pending", "Running", "Succeeded", "Failed", "Unknown"}, cond : BOOLEAN] \cup {[code |-> k, phase |-> "", cond |-> FALSE] : k \in {404, 500, 0}}

PvcAnswers == [code : {200}, phase : {"Pending", "Bound", "Lost"}, cond : {FALSE}] \cup {[code |-> k, phase |-> "", cond |-> FALSE] : k \in {404, 500, 0}}

\* the read has been made: it took dt
Polled(w, a, dt) == [w EXCEPT !.now = @ + dt, !.polls = @ + 1, !.sleeps = 0, !.slept = 0, !.seen = a, !.terminal = @ \/ (a.code = 200 /\ a.phase \in {"Failed", "Unknown"})]

Sleep(w, secs) == [w EXCEPT !.now = @ + secs, !.sleeps = @ + 1, !.slept = @ + secs]

Return(w, v) == [w EXCEPT !.ret = v]

_check_pod_status(a) ==
    CASE a.code = 404 -> [not_found |-> TRUE, phase |-> "NotFound", ready |-> FALSE]
      [] a.code = 500 -> [not_found |-> FALSE, phase |-> "Error", ready |-> FALSE]
      [] OTHER -> [not_found |-> FALSE, phase |-> a.phase, ready |-> a.phase = "Running" /\ a.cond]

\* _is_pod_in_failure_state with Unknown left out of failure_phases
IsPodFailedOnly(pod_status) == pod_status.phase \in {"Failed"}

_is_pod_in_failure_state(pod_status) == pod_status.phase \in {"Failed", "Unknown"}

\* _should_log_wait_diagnostics without the test of already_logged
ShouldLogEveryPoll(elapsed, timeout, already_logged) == 2 * elapsed > timeout

\* elapsed > timeout / 2
_should_log_wait_diagnostics(elapsed, timeout, already_logged) ==
    IF already_logged THEN FALSE ELSE 2 * elapsed > timeout

\* one iteration of the while loop of _wait_for_pod_ready; dt, dd: the time
\* the status read and a diagnostics capture take
PodReadyIteration(w, a, dt, dd) ==
    LET w1 == Polled(w, a, dt)
        pod_status == _check_pod_status(a)
        elapsed == w1.now
        w2 == [w1 EXCEPT !.elapsed = elapsed]
    IN  IF a.code = 0 THEN Return(w1, "raise")
        ELSE IF pod_status.not_found THEN Return(w1, "false")
        ELSE IF pod_status.ready THEN Return(w1, "true")
        ELSE IF _is_pod_in_failure_state(pod_status) THEN Return([w1 EXCEPT !.diag = TRUE, !.now = @ + dd], "false")
        ELSE IF _should_log_wait_diagnostics(elapsed, w.timeout, w.diagnostic_logged)
             THEN Sleep([w2 EXCEPT !.snaps = @ + 1, !.diagnostic_logged = TRUE, !.now = @ + dd], PollSleep)
             ELSE Sleep(w2, PollSleep)

\* one iteration of the while loop of _wait_for_pod_deleted and of
\* _wait_for_pvc_deleted: the sleep in the try, then the sleep after it
DeletedIteration(w, a, dt) ==
    LET w1 == Polled(w, a, dt)
    IN  IF a.code = 0 THEN Return(w1, "raise")
        ELSE IF a.code = 404 THEN Return(w1, "true")
        ELSE IF a.code = 200 THEN Sleep(Sleep(w1, PollSleep), PollSleep)
        ELSE Sleep(w1, PollSleep)

\* _wait_for_pvc_bound returning False at every ApiException
PvcBoundIterationAnyError(w, a, dt) ==
    LET w1 == Polled(w, a, dt)
    IN  IF a.code = 0 THEN Return(w1, "raise")
        ELSE IF a.code \in {404, 500} THEN Return(w1, "false")
        ELSE IF a.code = 200 /\ a.phase = "Bound" THEN Return(w1, "true")
        ELSE Sleep(w1, PollSleep)

\* one iteration of the while loop of _wait_for_pvc_bound
PvcBoundIteration(w, a, dt) ==
    LET w1 == Polled(w, a, dt)
    IN  IF a.code = 0 THEN Return(w1, "raise")
        ELSE IF a.code = 404 THEN Return(w1, "false")
        ELSE IF a.code = 200 /\ a.phase = "Bound" THEN Return(w1, "true")
        ELSE Sleep(w1, PollSleep)

\* after the loop: the warning, for a pod's ready wait _log_pod_diagnostics,
\* return False
AfterLoop(w, dd) ==
    IF w.kind = "pod_ready" THEN Return([w EXCEPT !.diag = TRUE, !.now = @ + dd], "false") ELSE Return(w, "false")

(***************************************************************************)
(* State.                                                                  *)
(***************************************************************************)
VARIABLES
    pvcs,                  \* self.pvcs: list of PVC names
    pods,                  \* self.pods: pvc_name -> list of pod names
    current_pod_count,     \* self.current_pod_count
    results,               \* self.results: per operation (success, fail)
    scenarios,             \* self.scenarios: per scenario (runs, success, fail)
    crash_test_pvc_name,   \* self._crash_test_pvc_name
    cpvc,                  \* cluster: existing PVC -> is terminating
    cpod,                  \* cluster: existing pod -> its claim, is terminating
    dropped,               \* the unit list of the claim _untrack_deleted_pvc removed last
    dels,                  \* the delete requests sent since the run began or the cleanup pass began
    waited,                \* the last wait: what it awaited, how it ended, what it captured
    rwtest,                \* the last read/write test made by a scenario
    creq,                  \* the last create request: what for, accepted or rejected
    pvcdel,                \* the last _delete_pvc: its claim, the units it called _delete_pod for, the request
    sweep,                 \* the current pass of _cleanup: the units it found tracked, its delete requests in order
    pc,                    \* where run_test is
    widx,                  \* position in _run_initial_operations
    steady_ops,            \* iterations of the while loop of run_test so far
    sc,                    \* the scenario in progress, its position and locals
    cl,                    \* _cleanup: the pass, its work lists, cleanup_failures
    last,                  \* the last scheduled operation: what was called, what came back
    log,                   \* what run_test and _cleanup have logged and returned
    faults,                \* steps in which the environment departed from the normal course
    expired,               \* time.time() - start_time >= self.test_duration
    weights,               \* the weight table given to the roulette
    random_val,            \* the last draw of the roulette, in halves (-1: none yet)
    selected,              \* the positions of the operations the last draw called
    wt                     \* one wait loop on its own: its clock, its polls, its sleeps, its return

prog == <<pvcs, pods, current_pod_count, results, scenarios, crash_test_pvc_name, cpvc, cpod, dropped, dels, waited, rwtest, creq, pvcdel, sweep>>

\* the variables of the roulette on its own
roulette == <<weights, random_val, selected>>

ctl == <<pc, widx, steady_ops, sc, cl, last, log, faults, expired>>

vars == <<pvcs, pods, current_pod_count, results, scenarios, crash_test_pvc_name, cpvc, cpod, dropped, dels, waited, rwtest, creq, pvcdel, sweep, pc, widx, steady_ops, sc, cl, last, log, faults, expired, weights, random_val, selected, wt>>

\* the orchestrator's fields and the cluster, as one record
S == [pvcs |-> pvcs, pods |-> pods, current_pod_count |-> current_pod_count, results |-> results, scenarios |-> scenarios, crash_test_pvc_name |-> crash_test_pvc_name, cpvc |-> cpvc, cpod |-> cpod, dropped |-> dropped, dels |-> dels, waited |-> waited, rwtest |-> rwtest, creq |-> creq, pvcdel |-> pvcdel, sweep |-> sweep]

SetS(s) ==
    /\ pvcs' = s.pvcs
    /\ pods' = s.pods
    /\ current_pod_count' = s.current_pod_count
    /\ results' = s.results
    /\ scenarios' = s.scenarios
    /\ crash_test_pvc_name' = s.crash_test_pvc_name
    /\ cpvc' = s.cpvc
    /\ cpod' = s.cpod
    /\ dropped' = s.dropped
    /\ dels' = s.dels
    /\ waited' = s.waited
    /\ rwtest' = s.rwtest
    /\ creq' = s.creq
    /\ pvcdel' = s.pvcdel
    /\ sweep' = s.sweep

OpNames == {"create_pvc", "attach_pod", "delete_pod", "delete_pvc", "verify_write", "verify_read"}

ScenarioNames == {"shared_volume_rw", "many_to_one", "one_to_one", "concurrent_pvc"}

Idle == [name |-> "none", step |-> "idle", pvc |-> NoPvc, list |-> <<>>, n |-> 0, i |-> 0, todo |-> {}, min_pvcs |-> 0]

NoCleanup == [pass |-> 0, force |-> FALSE, pods_todo |-> <<>>, pvcs_todo |-> <<>>, failed_pods |-> {}, failed_pvcs |-> {}]

NoLog == [cleanup_started |-> FALSE, cleanup_finished |-> FALSE, handler_raised |-> FALSE, remaining_pods |-> {}, remaining_pvcs |-> {}, failed_pods |-> {}, failed_pvcs |-> {}, exit_results |-> <<>>, exit_scenarios |-> <<>>, exit_faults |-> 0, report |-> <<>>]

\* _init_resource_tracking, against an empty namespace
InitRun ==
    /\ pvcs = <<>>
    /\ pods = <<>>
    /\ current_pod_count = 0
    /\ results = [o \in OpNames |-> Zero2]
    /\ scenarios = [n \in ScenarioNames |-> Zero3]
    /\ crash_test_pvc_name = NoPvc
    /\ cpvc = <<>>
    /\ cpod = <<>>
    /\ dropped = <<>>
    /\ dels = {}
    /\ waited = [kind |-> "none", name |-> <<>>, outcome |-> "none", ret |-> FALSE, diag |-> FALSE]
    /\ rwtest = NoRw
    /\ creq = [kind |-> "none", name |-> <<>>, accepted |-> FALSE]
    /\ pvcdel = NoPvcDel
    /\ sweep = NoSweep
    /\ pc = "start"
    /\ widx = 1
    /\ steady_ops = 0
    /\ sc = Idle
    /\ cl = NoCleanup
    /\ last = [seq |-> 0, op |-> "none", pvc |-> NoPvc, pod |-> NoPod, ret |-> FALSE, exc |-> FALSE]
    /\ log = NoLog
    /\ faults = 0
    /\ expired = FALSE

\* the weights of _get_operations_and_weights with an empty operation_weights
\* section, in the order of the operations list
DefaultWeights == <<25, 25, 20, 15, 15, 20>>

Init ==
    /\ InitRun
    /\ weights = DefaultWeights
    /\ random_val = -1
    /\ selected = {}
    /\ wt = NoWait

(***************************************************************************)
(* run_test (orchestrator.py:272-344).                                     *)
(***************************************************************************)
\* the operations list of _get_operations_and_weights
Operations == <<"create_pvc", "attach_pod", "delete_pod", "delete_pvc", "verify_readwrite", "run_specific_scenario">>

\* _get_cumulative_weights: the running sums; total_weight is the last one
RECURSIVE SumTo(_, _)
SumTo(w, i) == IF i = 0 THEN 0 ELSE w[i] + SumTo(w, i - 1)

_get_cumulative_weights(w) == [i \in 1..Len(w) |-> SumTo(w, i)]

total_weight(w) == _get_cumulative_weights(w)[Len(w)]

\* random.uniform(0, total_weight) is a real in [0, total_weight]: a draw is
\* given in halves (d2 = 2 * random_val), so that the points between two
\* integers are drawn as well as the integers
Draws(w) == 0..(2 * total_weight(w))

\* _run_random_operation: the positions (from 1) of the operations it calls.
\* The loop calls the first one with random_val <= cumulative_weights[i] and breaks.
_run_random_operation(w, d2) ==
    LET cumulative_weights == _get_cumulative_weights(w)
        hits == {i \in 1..Len(w) : d2 <= 2 * cumulative_weights[i]}
    IN  IF hits = {} THEN {} ELSE {Min(hits)}

\* the loop can call op: some draw selects it
Drawn(op) == \E d2 \in Draws(weights) : \E i \in _run_random_operation(weights, d2) : Operations[i] = op

\* _run_initial_operations deleting the claim before the unit
WarmupSeqClaimFirst == <<"create_pvc", "create_pvc", "attach_pod", "attach_pod", "attach_pod", "verify_readwrite", "run_specific_scenario", "delete_pvc", "delete_pod">>

\* _run_initial_operations
WarmupSeq == <<"create_pvc", "create_pvc", "attach_pod", "attach_pod", "attach_pod", "verify_readwrite", "run_specific_scenario", "delete_pod", "delete_pvc">>

\* the loop drawing without looking at the clock
CanRunPastBudget(op) ==
    /\ sc.step = "idle"
    /\ \/ pc = "warmup" /\ WarmupSeq[widx] = op
       \/ pc = "loop" /\ steady_ops < MaxSteadyOps /\ Drawn(op)

\* op is the next call of the warm-up, or the loop may draw it
CanRun(op) ==
    /\ sc.step = "idle"
    /\ \/ pc = "warmup" /\ WarmupSeq[widx] = op
       \/ pc = "loop" /\ ~expired /\ steady_ops < MaxSteadyOps /\ Drawn(op)

\* the scheduled operation has returned (exc: it raised): the warm-up runs
\* outside the try, the loop inside it
Finish(exc) ==
    IF pc = "warmup"
    THEN /\ pc' = IF exc THEN "raised" ELSE IF widx = Len(WarmupSeq) THEN "loop" ELSE "warmup"
         /\ widx' = IF exc THEN widx ELSE widx + 1
         /\ UNCHANGED steady_ops
    ELSE /\ pc' = IF exc THEN "handler" ELSE "loop"
         /\ steady_ops' = steady_ops + 1
         /\ UNCHANGED widx

\* A step meets a fault when a call it makes to the cluster, a pod or the log
\* collection does not succeed, or the user interrupts; a run meets at most MaxFaults.
Meets(fault) == (fault => faults < MaxFaults) /\ faults' = IF fault THEN faults + 1 ELSE faults

\* the cluster rejects a create request it could have accepted: when the
\* names of the model are all in use the request can only fail, and that
\* failure is not one of the faults a run is allowed
PvcFault(c) == c # "ok" /\ "ok" \in CreatePvcOutcomes(S)

PodFault(c) == c # "ok" /\ "ok" \in CreatePodOutcomes(S)

SoloPvcFault(c) == c # "ok" /\ "ok" \in SoloCreatePvcOutcomes(S)

\* _cleanup meets faults only after a run that met none, at most MaxCleanupFaults
CleanupMeets(fault) ==
    LET run_faults == IF log.cleanup_started THEN log.exit_faults ELSE faults
    IN  (fault => (run_faults = 0 /\ faults < MaxCleanupFaults)) /\ faults' = IF fault THEN faults + 1 ELSE faults

Called(op, pvc_name, pod_name, r) == last' = [seq |-> last.seq + 1, op |-> op, pvc |-> pvc_name, pod |-> pod_name, ret |-> r.ret, exc |-> r.exc]

\* a scheduled operation that is one step: r is what it did, fault whether
\* a call of it failed
Scheduled(op, pvc_name, pod_name, r, fault) == Meets(fault) /\ SetS(r.s) /\ Finish(r.exc) /\ Called(op, pvc_name, pod_name, r) /\ UNCHANGED <<sc, cl, log, expired, roulette, wt>>

PvcPicks(s) == IF s.pvcs = <<>> THEN {NoPvc} ELSE Range(s.pvcs)

PodPicks(s) == IF AllPods(s) = {} THEN {<<NoPvc, NoPod>>} ELSE AllPods(s)

\* the outcomes of the pod deletions _delete_pvc makes for chosen
PodOutcomes(s, chosen) == IF chosen \in DOMAIN s.pods THEN [Range(s.pods[chosen]) -> DelOutcomes] ELSE {<<>>}

AllGone(s, chosen) == IF chosen \in DOMAIN s.pods THEN [p \in Range(s.pods[chosen]) |-> "gone"] ELSE <<>>

\* deploy_csi_driver (never raises) and _ensure_storage_class (re-raises
\* what is not a 404, and what create_storage_class raises)
Start ==
    /\ pc = "start"
    /\ \E o \in {"exists", "created", "raise"} : Meets(o = "raise") /\ pc' = IF o = "raise" THEN "raised" ELSE "warmup"
    /\ UNCHANGED <<prog, widx, steady_ops, sc, cl, last, log, expired, roulette, wt>>

CreatePvc ==
    /\ CanRun("create_pvc")
    /\ \E c \in CreatePvcOutcomes(S), w \in BoundOutcomes :
         Scheduled("create_pvc", NoPvc, NoPod, _create_pvc(S, c, w), PvcFault(c) \/ w # "bound")

AttachPod ==
    /\ CanRun("attach_pod")
    /\ \E pick \in PvcPicks(S), c \in CreatePodOutcomes(S), w \in ReadyOutcomes :
         LET r == _attach_pod(S, NoPvc, pick, c, w)
         IN  Scheduled("attach_pod", pick, r.ret, [r EXCEPT !.ret = (r.ret # NoPod)], PodFault(c) \/ w # "ready")

DeletePod ==
    /\ CanRun("delete_pod")
    /\ \E pick \in PodPicks(S), d \in DelOutcomes :
         Scheduled("delete_pod", pick[1], pick[2], _delete_pod(S, NoPod, NoPvc, FALSE, pick, d), d # "gone")

DeletePvc ==
    /\ CanRun("delete_pvc")
    /\ \E pick \in PvcPicks(S), d \in DelOutcomes :
         \E po \in PodOutcomes(S, pick) :
           Scheduled("delete_pvc", pick, NoPod, _delete_pvc(S, NoPvc, FALSE, pick, po, d), d # "gone" \/ po # AllGone(S, pick))

VerifyReadwrite ==
    /\ CanRun("verify_readwrite")
    /\ \E o \in RwOutcomes :
         Scheduled("verify_readwrite", NoPvc, NoPod, _verify_readwrite(S, o), o # "read_ok")

(***************************************************************************)
(* _run_specific_scenario (orchestrator.py:964-1507, 2368-2589).  A        *)
(* scenario is one scheduled operation made of several steps; sc holds its *)
(* locals between them.  A step gives the new state, the new locals (Idle: *)
(* the scenario has returned) and whether the scenario raised.             *)
(***************************************************************************)
E(s, nsc, exc) == [s |-> s, sc |-> nsc, exc |-> exc]

\* e is what the step did, fault whether a call of it failed
ScenarioStep(e, fault) ==
    /\ Meets(fault)
    /\ SetS(e.s)
    /\ sc' = e.sc
    /\ last' = [seq |-> IF sc.step = "idle" THEN last.seq + 1 ELSE last.seq, op |-> "run_specific_scenario", pvc |-> NoPvc, pod |-> NoPod, ret |-> FALSE, exc |-> e.exc]
    /\ IF e.sc = Idle THEN Finish(e.exc) ELSE UNCHANGED <<pc, widx, steady_ops>>
    /\ UNCHANGED <<cl, log, expired, roulette, wt>>

\* _scenario_many_to_one counting a success when its claim was not created
ManyToOneBeginNoClaimSuccess(s, c, w, n) ==
    LET r == _create_many_to_one_pvc(ScenarioRun(s, "many_to_one"), c, w)
    IN  IF r.ret = NoPvc THEN E(ScenarioSuccess(r.s, "many_to_one"), Idle, FALSE)
        ELSE E(r.s, [Idle EXCEPT !.name = "many_to_one", !.step = "pods", !.pvc = r.ret, !.n = n], FALSE)

\* _scenario_many_to_one up to the pod loop; n: random.randint(min_pods, max_pods)
many_to_one_begin(s, c, w, n) ==
    LET r == _create_many_to_one_pvc(ScenarioRun(s, "many_to_one"), c, w)
    IN  IF r.ret = NoPvc THEN E(ScenarioFail(r.s, "many_to_one"), Idle, FALSE)
        ELSE E(r.s, [Idle EXCEPT !.name = "many_to_one", !.step = "pods", !.pvc = r.ret, !.n = n], FALSE)

\* one iteration of the loop of _create_many_to_one_pods
many_to_one_pod(s, l, pick, c, w) ==
    LET r == _attach_pod(s, l.pvc, pick, c, w)
    IN  E(r.s, [l EXCEPT !.i = @ + 1, !.list = IF r.ret # NoPod THEN Append(@, r.ret) ELSE @], FALSE)

\* the rest of _scenario_many_to_one;
\* lg: what collect_logs_on_test_failure does, inside the try of the scenario
many_to_one_test(s, l, wp, x, lg) ==
    LET r == _test_many_to_one_rw(s, l, wp, x)
    IN  IF Len(l.list) < 2 THEN E(ScenarioFail(s, "many_to_one"), Idle, FALSE)
        ELSE IF r.ret THEN E(ScenarioSuccess(r.s, "many_to_one"), Idle, FALSE)
        ELSE IF lg = "raise" THEN E(ScenarioFail(ScenarioFail(r.s, "many_to_one"), "many_to_one"), Idle, FALSE)
        ELSE E(ScenarioFail(r.s, "many_to_one"), Idle, FALSE)

\* writer_pod = random.choice(pod_names); reader_pod = random.choice of the others
WriterReaderPicks(l) == IF Len(l.list) < 2 THEN {<<NoPod, NoPod>>} ELSE {wp \in Range(l.list) \X Range(l.list) : wp[1] # wp[2]}

Healthy == [wr |-> "ok", rd |-> "ok", out |-> test_content]

ManyToOneBegin ==
    /\ CanRun("run_specific_scenario")
    /\ \E c \in CreatePvcOutcomes(S), w \in BoundOutcomes, n \in m2o_min_pods..m2o_max_pods :
         ScenarioStep(many_to_one_begin(S, c, w, n), PvcFault(c) \/ w # "bound")

ManyToOnePod ==
    /\ sc.name = "many_to_one" /\ sc.step = "pods" /\ sc.i < sc.n
    /\ \E pick \in PvcPicks(S), c \in CreatePodOutcomes(S), w \in ReadyOutcomes :
         ScenarioStep(many_to_one_pod(S, sc, pick, c, w), PodFault(c) \/ w # "ready")

ManyToOneTest ==
    /\ sc.name = "many_to_one" /\ sc.step = "pods" /\ sc.i = sc.n
    /\ \E wp \in WriterReaderPicks(sc), x \in RwExecs, lg \in LogOutcomes :
         ScenarioStep(many_to_one_test(S, sc, wp, x, lg), x # Healthy \/ lg = "raise")

\* _scenario_one_to_one up to the pair loop; n: random.randint(min_pairs, max_pairs)
one_to_one_begin(s, n) == E(ScenarioRun(s, "one_to_one"), [Idle EXCEPT !.name = "one_to_one", !.step = "pairs", !.n = n], FALSE)

\* one iteration of the loop of _create_one_to_one_pairs
one_to_one_pair(s, l, c, w, c2, w2) ==
    LET r == _create_one_to_one_pair(s, c, w, c2, w2)
    IN  E(r.s, [l EXCEPT !.i = @ + 1, !.list = IF r.ret # <<>> THEN Append(@, r.ret) ELSE @], FALSE)

\* the rest of _scenario_one_to_one, which has no try: what
\* _collect_one_to_one_failure_logs raises leaves the scenario
one_to_one_test(s, l, xs, lg) ==
    LET r == _test_one_to_one_rw(s, l, xs)
    IN  IF Len(l.list) < 2 THEN E(ScenarioFail(s, "one_to_one"), Idle, FALSE)
        ELSE IF r.ret THEN E(ScenarioSuccess(r.s, "one_to_one"), Idle, FALSE)
        ELSE E(ScenarioFail(r.s, "one_to_one"), Idle, lg = "raise")

OneToOneBegin ==
    /\ CanRun("run_specific_scenario")
    /\ \E n \in o2o_min_pairs..o2o_max_pairs :
         ScenarioStep(one_to_one_begin(S, n), FALSE)

OneToOnePair ==
    /\ sc.name = "one_to_one" /\ sc.step = "pairs" /\ sc.i < sc.n
    /\ \E c \in CreatePvcOutcomes(S), w \in BoundOutcomes, c2 \in CreatePodOutcomes(S), w2 \in ReadyOutcomes :
         ScenarioStep(one_to_one_pair(S, sc, c, w, c2, w2), PvcFault(c) \/ w # "bound" \/ PodFault(c2) \/ w2 # "ready")

OneToOneTest ==
    /\ sc.name = "one_to_one" /\ sc.step = "pairs" /\ sc.i = sc.n
    /\ \E xs \in [1..Len(sc.list) -> RwExecs], lg \in LogOutcomes :
         ScenarioStep(one_to_one_test(S, sc, xs, lg), (\E j \in 1..Len(sc.list) : xs[j] # Healthy) \/ lg = "raise")

\* _scenario_concurrent_pvc up to the creation loop; min_pvcs: the value read
\* from the configuration; n: random.randint(min_pvcs, max_pvcs)
concurrent_begin(s, min_pvcs, n) == E(ScenarioRun(s, "concurrent_pvc"), [Idle EXCEPT !.name = "concurrent_pvc", !.step = "create", !.n = n, !.min_pvcs = min_pvcs], FALSE)

\* one iteration of the loop of _concurrent_create_pvcs
concurrent_create(s, l, c, w) ==
    LET pvc_name == <<"concurrent-pvc", FreshPvcId(s)>>
        r == _create_pvc_for_concurrent(s, pvc_name, c, w)
    IN  E(r.s, [l EXCEPT !.i = @ + 1, !.list = IF r.ret THEN Append(@, pvc_name) ELSE @], FALSE)

\* len(created_pvcs) < 2: _mark_concurrent_scenario_failed; else the sample of
\* _concurrent_create_pods is drawn: min(len(created_pvcs), 3) of them, in any order
concurrent_created(s, l) ==
    IF Len(l.list) < 2 THEN E(ScenarioFail(s, "concurrent_pvc"), Idle, FALSE)
    ELSE E(s, [l EXCEPT !.step = "pods", !.n = IF Len(l.list) < 3 THEN Len(l.list) ELSE 3, !.i = 0, !.todo = Range(l.list)], FALSE)

\* one iteration of the loop of _concurrent_create_pods
concurrent_pod(s, l, pvc_name, pick, c, w) == E(_attach_pod(s, pvc_name, pick, c, w).s, [l EXCEPT !.i = @ + 1, !.todo = @ \ {pvc_name}], FALSE)

\* the sample of _concurrent_delete_pvcs is drawn: min(len(created_pvcs), min_pvcs) of them
concurrent_pods_done(s, l) == E(s, [l EXCEPT !.step = "delete", !.n = IF Len(l.list) < l.min_pvcs THEN Len(l.list) ELSE l.min_pvcs, !.i = 0, !.todo = Range(l.list)], FALSE)

\* one iteration of the loop of _concurrent_delete_pvcs
concurrent_delete(s, l, pvc_name, pick, po, d) == E(_delete_pvc(s, pvc_name, FALSE, pick, po, d).s, [l EXCEPT !.i = @ + 1, !.todo = @ \ {pvc_name}], FALSE)

concurrent_done(s) == E(ScenarioSuccess(s, "concurrent_pvc"), Idle, FALSE)

ConcurrentBegin ==
    /\ CanRun("run_specific_scenario")
    /\ \E n \in conc_min_pvcs..conc_max_pvcs :
         ScenarioStep(concurrent_begin(S, conc_min_pvcs, n), FALSE)

ConcurrentCreate ==
    /\ sc.name = "concurrent_pvc" /\ sc.step = "create" /\ sc.i < sc.n
    /\ \E c \in CreatePvcOutcomes(S), w \in BoundOutcomes :
         ScenarioStep(concurrent_create(S, sc, c, w), PvcFault(c) \/ w # "bound")

ConcurrentCreated ==
    /\ sc.name = "concurrent_pvc" /\ sc.step = "create" /\ sc.i = sc.n
    /\ ScenarioStep(concurrent_created(S, sc), FALSE)

ConcurrentPod ==
    /\ sc.name = "concurrent_pvc" /\ sc.step = "pods" /\ sc.i < sc.n
    /\ \E pvc_name \in sc.todo, pick \in PvcPicks(S), c \in CreatePodOutcomes(S), w \in ReadyOutcomes :
         ScenarioStep(concurrent_pod(S, sc, pvc_name, pick, c, w), PodFault(c) \/ w # "ready")

ConcurrentPodsDone ==
    /\ sc.name = "concurrent_pvc" /\ sc.step = "pods" /\ sc.i = sc.n
    /\ ScenarioStep(concurrent_pods_done(S, sc), FALSE)

ConcurrentDelete ==
    /\ sc.name = "concurrent_pvc" /\ sc.step = "delete" /\ sc.i < sc.n
    /\ \E pvc_name \in sc.todo, pick \in PvcPicks(S), d \in DelOutcomes :
         LET chosen == _select_pvc_for_deletion(S, pvc_name, pick)
         IN  \E po \in PodOutcomes(S, chosen) :
               ScenarioStep(concurrent_delete(S, sc, pvc_name, pick, po, d), d # "gone" \/ po # AllGone(S, chosen))

ConcurrentDone ==
    /\ sc.name = "concurrent_pvc" /\ sc.step = "delete" /\ sc.i = sc.n
    /\ ScenarioStep(concurrent_done(S), FALSE)

\* self.scenarios['controller_crash'] is made on first use
WithCrashKey(s) == IF "controller_crash" \in DOMAIN s.scenarios THEN s ELSE [s EXCEPT !.scenarios = [k \in DOMAIN @ \cup {"controller_crash"} |-> IF k = "controller_crash" THEN Zero3 ELSE @[k]]]

\* the except of _scenario_controller_crash_test: what
\* _handle_unexpected_test_error raises leaves the scenario
crash_except(s, lg) == E(_track_scenario_failure(s, "controller_crash"), Idle, _handle_unexpected_test_error(s, lg).exc)

\* _scenario_controller_crash_test up to and with _create_crash_test_pvc
crash_begin(s, c, lg) ==
    LET r == _create_crash_test_pvc(ScenarioRun(WithCrashKey(s), "controller_crash"), c)
    IN  IF r.exc THEN crash_except(r.s, lg)
        ELSE E(r.s, [Idle EXCEPT !.name = "controller_crash", !.step = "crash", !.pvc = r.ret], FALSE)

\* crashed: _crash_controller_pod returned True; then _verify_crash_test_pvc_and_pod
crash_and_verify(s, crashed, w, c2, w2, rw, lg) ==
    LET r == _verify_crash_test_pvc_and_pod(s, w, c2, w2, rw)
    IN  IF ~crashed THEN E(_track_scenario_failure(s, "controller_crash"), Idle, FALSE)
        ELSE IF r.exc THEN crash_except(r.s, lg)
        ELSE IF ~r.ret THEN E(_track_scenario_failure(r.s, "controller_crash"), Idle, FALSE)
        ELSE E(_track_scenario_success(r.s, "controller_crash"), Idle, FALSE)

CrashBegin ==
    /\ CanRun("run_specific_scenario")
    /\ \E c \in CreatePvcOutcomes(S), lg \in LogOutcomes :
         ScenarioStep(crash_begin(S, c, lg), PvcFault(c) \/ lg = "raise")

CrashAndVerify ==
    /\ sc.name = "controller_crash" /\ sc.step = "crash"
    /\ \E crashed \in BOOLEAN, w \in BoundOutcomes, c2 \in CreatePodOutcomes(S), w2 \in ReadyOutcomes, rw \in BOOLEAN, lg \in LogOutcomes :
         ScenarioStep(crash_and_verify(S, crashed, w, c2, w2, rw, lg), ~crashed \/ w # "bound" \/ PodFault(c2) \/ w2 # "ready" \/ ~rw \/ lg = "raise")

(***************************************************************************)
(* The loop of run_test, its handlers and its finally                      *)
(* (orchestrator.py:287-299, 346-361).                                     *)
(***************************************************************************)
\* the clock passes start_time + test_duration; the loop reads the clock at
\* its top only, so what matters is whether it happens before an iteration
\* or while an operation is in flight
Expire ==
    /\ pc = "loop" /\ ~expired
    /\ expired' = TRUE
    /\ UNCHANGED <<prog, pc, widx, steady_ops, sc, cl, last, log, faults, roulette, wt>>

\* the while of run_test that never looks at the clock
LoopNeverOver == FALSE

\* time.time() - start_time >= self.test_duration at the top of the loop
LoopIsOver == pc = "loop" /\ sc.step = "idle" /\ expired

BudgetExpired ==
    /\ LoopIsOver
    /\ pc' = "finally"
    /\ UNCHANGED <<prog, widx, steady_ops, sc, cl, last, log, faults, expired, roulette, wt>>

\* KeyboardInterrupt: caught inside the try only
Interrupt ==
    /\ pc \in {"start", "warmup", "loop"}
    /\ Meets(TRUE)
    /\ pc' = IF pc = "loop" THEN "finally" ELSE "raised"
    /\ sc' = Idle
    /\ UNCHANGED <<prog, widx, steady_ops, cl, last, log, expired, roulette, wt>>

\* except Exception: what the handler itself raises is discarded by the
\* return in the finally
Handler ==
    /\ pc = "handler"
    /\ \E lg \in LogOutcomes : Meets(lg = "raise") /\ log' = [log EXCEPT !.handler_raised = _handle_unexpected_test_error(S, lg).exc]
    /\ pc' = "finally"
    /\ UNCHANGED <<prog, widx, steady_ops, sc, cl, last, expired, roulette, wt>>

(***************************************************************************)
(* _cleanup (orchestrator.py:2165-2258) and _generate_report (2260-2281).  *)
(***************************************************************************)
\* _cleanup_pods going through the units of the first claim only
FlattenPodsFirstClaim(s, keys) == IF keys = <<>> THEN <<>> ELSE [j \in 1..Len(s.pods[Head(keys)]) |-> <<Head(keys), s.pods[Head(keys)][j]>>]

\* for pvc_name, pod_list in list(self.pods.items()): for pod_name in list(pod_list)
RECURSIVE FlattenPods(_, _)
FlattenPods(s, keys) == IF keys = <<>> THEN <<>> ELSE [j \in 1..Len(s.pods[Head(keys)]) |-> <<Head(keys), s.pods[Head(keys)][j]>>] \o FlattenPods(s, Tail(keys))

\* the name filter of _get_remaining_resources
ListedPrefixes == {"test-pvc", "many2one", "one2one", "concurrent-pvc"}

\* lp, lv: what list_namespaced_pod and list_namespaced_persistent_volume_claim do
_get_remaining_resources(s, lp, lv) == [pods |-> IF lp = "ok" THEN DOMAIN s.cpod ELSE {}, pvcs |-> IF lv = "ok" THEN {v \in DOMAIN s.cpvc : v[1] \in ListedPrefixes} ELSE {}]

\* _cleanup going straight to the forced pass
CleanupBeginForced ==
    /\ pc = "finally"
    /\ \E fs \in LogOutcomes :
         /\ CleanupMeets(fs = "raise")
         /\ pc' = IF fs = "raise" THEN "raised" ELSE "cleanup_pods"
         /\ cl' = IF fs = "raise" THEN cl ELSE [NoCleanup EXCEPT !.pass = 2, !.force = TRUE, !.pods_todo = FlattenPods(S, pvcs)]
    /\ log' = [log EXCEPT !.cleanup_started = TRUE, !.exit_results = results, !.exit_scenarios = scenarios, !.exit_faults = faults]
    /\ SetS(BeginSweep([S EXCEPT !.dels = {}]))
    /\ UNCHANGED <<widx, steady_ops, sc, last, expired, roulette, wt>>

\* the finally of run_test enters _cleanup: _collect_statefulset_pod_logs
\* makes its directory outside its try
CleanupBegin ==
    /\ pc = "finally"
    /\ \E fs \in LogOutcomes :
         /\ CleanupMeets(fs = "raise")
         /\ pc' = IF fs = "raise" THEN "raised" ELSE "cleanup_pods"
         /\ cl' = IF fs = "raise" THEN cl ELSE [NoCleanup EXCEPT !.pass = 1, !.pods_todo = FlattenPods(S, pvcs)]
    /\ log' = [log EXCEPT !.cleanup_started = TRUE, !.exit_results = results, !.exit_scenarios = scenarios, !.exit_faults = faults]
    /\ SetS(BeginSweep([S EXCEPT !.dels = {}]))
    /\ UNCHANGED <<widx, steady_ops, sc, last, expired, roulette, wt>>

\* one iteration of _cleanup_pods
CleanupPod ==
    /\ pc = "cleanup_pods" /\ cl.pods_todo # <<>>
    /\ \E d \in DelOutcomes :
         LET h == Head(cl.pods_todo)
             r == _delete_pod(S, h[2], h[1], cl.force, <<NoPvc, NoPod>>, d)
         IN  /\ CleanupMeets(d # "gone")
             /\ SetS(r.s)
             /\ cl' = [cl EXCEPT !.pods_todo = Tail(@), !.failed_pods = IF r.ret THEN @ ELSE @ \cup {h[2]}]
    /\ UNCHANGED <<pc, widx, steady_ops, sc, last, log, expired, roulette, wt>>

\* time.sleep(5), then _cleanup_pvcs takes list(self.pvcs)
CleanupPodsDone ==
    /\ pc = "cleanup_pods" /\ cl.pods_todo = <<>>
    /\ pc' = "cleanup_pvcs"
    /\ cl' = [cl EXCEPT !.pvcs_todo = pvcs]
    /\ UNCHANGED <<prog, widx, steady_ops, sc, last, log, faults, expired, roulette, wt>>

\* one iteration of _cleanup_pvcs
CleanupPvc ==
    /\ pc = "cleanup_pvcs" /\ cl.pvcs_todo # <<>>
    /\ \E d \in DelOutcomes :
         LET h == Head(cl.pvcs_todo)
             chosen == _select_pvc_for_deletion(S, h, h)
         IN  \E po \in PodOutcomes(S, chosen) :
               LET r == _delete_pvc(S, h, cl.force, h, po, d)
               IN  /\ CleanupMeets(d # "gone" \/ po # AllGone(S, chosen))
                   /\ SetS(r.s)
                   /\ cl' = [cl EXCEPT !.pvcs_todo = Tail(@), !.failed_pvcs = IF r.ret THEN @ ELSE @ \cup {h}]
    /\ UNCHANGED <<pc, widx, steady_ops, sc, last, log, expired, roulette, wt>>

\* _get_remaining_resources after a pass: what remains is logged (log keeps
\* all that was logged as remaining), and after the first pass it starts the
\* forced pass
CleanupCheck ==
    /\ pc = "cleanup_pvcs" /\ cl.pvcs_todo = <<>>
    /\ \E lp \in {"ok", "err"}, lv \in {"ok", "err"} :
         LET remaining_resources == _get_remaining_resources(S, lp, lv)
             again == cl.pass = 1 /\ (remaining_resources.pods # {} \/ remaining_resources.pvcs # {})
         IN  /\ CleanupMeets(lp # "ok" \/ lv # "ok")
             /\ log' = [log EXCEPT !.remaining_pods = @ \cup remaining_resources.pods, !.remaining_pvcs = @ \cup remaining_resources.pvcs]
             /\ pc' = IF again THEN "cleanup_pods" ELSE "cleanup_end"
             /\ cl' = IF again THEN [cl EXCEPT !.pass = 2, !.force = TRUE, !.pods_todo = FlattenPods(S, pvcs)] ELSE cl
             /\ SetS(IF again THEN BeginSweep([S EXCEPT !.dels = {}]) ELSE S)
    /\ UNCHANGED <<widx, steady_ops, sc, last, expired, roulette, wt>>

\* the "Failed deletions" line, then the finally of _cleanup:
\* _generate_stale_file_handle_summary writes its file outside any try
CleanupEnd ==
    /\ pc = "cleanup_end"
    /\ log' = [log EXCEPT !.cleanup_finished = TRUE, !.failed_pods = cl.failed_pods, !.failed_pvcs = cl.failed_pvcs]
    /\ \E sm \in LogOutcomes : CleanupMeets(sm = "raise") /\ pc' = IF sm = "raise" THEN "raised" ELSE "report"
    /\ UNCHANGED <<prog, widx, steady_ops, sc, cl, last, expired, roulette, wt>>

\* return self._generate_report()
Report ==
    /\ pc = "report"
    /\ log' = [log EXCEPT !.report = [operations |-> results, scenarios |-> scenarios]]
    /\ pc' = "returned"
    /\ UNCHANGED <<prog, widx, steady_ops, sc, cl, last, faults, expired, roulette, wt>>

(***************************************************************************)
(* The cluster finishes deletions on its own time.                         *)
(***************************************************************************)
Running == pc \notin {"returned", "raised"}

FinalizePod ==
    /\ Running
    /\ \E p \in DOMAIN cpod : cpod[p].term /\ SetS(ClusterDropPod(S, p))
    /\ UNCHANGED <<ctl, roulette, wt>>

FinalizePvc ==
    /\ Running
    /\ \E v \in DOMAIN cpvc : cpvc[v] /\ PodsUsing(S, v) = {} /\ SetS([S EXCEPT !.cpvc = DelKey(@, v)])
    /\ UNCHANGED <<ctl, roulette, wt>>

Next ==
    \/ Start
    \/ CreatePvc
    \/ AttachPod
    \/ DeletePod
    \/ DeletePvc
    \/ VerifyReadwrite
    \/ ManyToOneBegin
    \/ ManyToOnePod
    \/ ManyToOneTest
    \/ OneToOneBegin
    \/ OneToOnePair
    \/ OneToOneTest
    \/ ConcurrentBegin
    \/ ConcurrentCreate
    \/ ConcurrentCreated
    \/ ConcurrentPod
    \/ ConcurrentPodsDone
    \/ ConcurrentDelete
    \/ ConcurrentDone
    \/ CrashBegin
    \/ CrashAndVerify
    \/ Interrupt
    \/ Expire
    \/ BudgetExpired
    \/ Handler
    \/ CleanupBegin
    \/ CleanupPod
    \/ CleanupPodsDone
    \/ CleanupPvc
    \/ CleanupCheck
    \/ CleanupEnd
    \/ Report
    \/ FinalizePod
    \/ FinalizePvc

Spec == Init /\ [][Next]_vars

\* run_test has a statement to execute: the start, a call of the warm-up or
\* of the loop, a step of the scenario in progress, the test of the while,
\* a handler, a step of _cleanup, the report.  While the loop runs the clock
\* has yet to pass the budget.
CanStep ==
    \/ pc = "start"
    \/ \E k \in 1..Len(Operations) : CanRun(Operations[k])
    \/ sc.step # "idle"
    \/ LoopIsOver
    \/ pc = "loop" /\ ~expired
    \/ pc \in {"handler", "finally", "cleanup_pods", "cleanup_pvcs", "cleanup_end", "report"}

\* run_test is executed to its end: the clock passes start_time +
\* test_duration, and as long as run_test has a statement to execute a step
\* is taken (every call returns or raises).  The second condition is
\* WF_vars(Next) with ENABLED <<Next>>_vars written out as CanStep.
SpecLive == Spec /\ WF_vars(Expire) /\ ([]<>~CanStep \/ []<><<TRUE>>_vars)

(***************************************************************************)
(* The roulette of _run_random_operation on its own, for any weight table. *)
(***************************************************************************)
\* weight tables of MaxOps operations with weights up to MaxWeight and a
\* positive total
WeightTables == {w \in [1..MaxOps -> 0..MaxWeight] : total_weight(w) > 0}

RouletteInit ==
    /\ InitRun
    /\ weights \in WeightTables
    /\ random_val = -1
    /\ selected = {}
    /\ wt = NoWait

\* one call of _run_random_operation
Draw ==
    /\ \E d2 \in Draws(weights) : random_val' = d2 /\ selected' = _run_random_operation(weights, d2)
    /\ UNCHANGED <<prog, ctl, weights, wt>>

RouletteNext ==
    \/ Draw

SpecRoulette == RouletteInit /\ [][RouletteNext]_vars

(***************************************************************************)
(* A wait loop on its own: the caller gives the timeout.                   *)
(***************************************************************************)
WaitKinds == {"pvc_bound", "pod_ready", "pod_deleted", "pvc_deleted"}

CallTimes == 0..MaxCallTime

WaitInit ==
    /\ InitRun
    /\ weights = DefaultWeights
    /\ random_val = -1
    /\ selected = {}
    /\ wt \in {[NoWait EXCEPT !.kind = k, !.timeout = tm] : k \in WaitKinds, tm \in MinWaitTimeout..MaxWaitTimeout}

\* while time.time() - start_time < timeout
Looping(kind) == wt.kind = kind /\ wt.ret = "none" /\ wt.now < wt.timeout

PollPodReady ==
    /\ Looping("pod_ready")
    /\ \E a \in PodAnswers, dt \in CallTimes, dd \in CallTimes : wt' = PodReadyIteration(wt, a, dt, dd)
    /\ UNCHANGED <<prog, ctl, roulette>>

PollPvcBound ==
    /\ Looping("pvc_bound")
    /\ \E a \in PvcAnswers, dt \in CallTimes : wt' = PvcBoundIteration(wt, a, dt)
    /\ UNCHANGED <<prog, ctl, roulette>>

PollPodDeleted ==
    /\ Looping("pod_deleted")
    /\ \E a \in PodAnswers, dt \in CallTimes : wt' = DeletedIteration(wt, a, dt)
    /\ UNCHANGED <<prog, ctl, roulette>>

PollPvcDeleted ==
    /\ Looping("pvc_deleted")
    /\ \E a \in PvcAnswers, dt \in CallTimes : wt' = DeletedIteration(wt, a, dt)
    /\ UNCHANGED <<prog, ctl, roulette>>

WaitTimeout ==
    /\ wt.kind \in WaitKinds /\ wt.ret = "none" /\ wt.now >= wt.timeout
    /\ \E dd \in CallTimes : wt' = AfterLoop(wt, dd)
    /\ UNCHANGED <<prog, ctl, roulette>>

WaitNext ==
    \/ PollPodReady
    \/ PollPvcBound
    \/ PollPodDeleted
    \/ PollPvcDeleted
    \/ WaitTimeout

SpecWait == WaitInit /\ [][WaitNext]_vars

\* every call made by the loop returns and every sleep ends
SpecWaitLive == SpecWait /\ WF_vars(WaitNext)

(***************************************************************************)
(* The operations called directly, with arguments, on an orchestrator      *)
(* whose run_test has not been called.                                     *)
(***************************************************************************)
\* the pvc_name a caller gives to _attach_pod: None or a test-pvc name
DirectPvcArgs == {NoPvc} \cup ({"test-pvc"} \X PvcIds)

Direct(op, pvc_name, pod_name, r) ==
    /\ SetS(r.s)
    /\ Called(op, pvc_name, pod_name, r)
    /\ UNCHANGED <<pc, widx, steady_ops, sc, cl, log, faults, expired, roulette, wt>>

CanCall == pc = "start" /\ last.seq < MaxDirectCalls

DirectCreatePvc ==
    /\ CanCall
    /\ \E c \in CreatePvcOutcomes(S), w \in BoundOutcomes : Direct("create_pvc", NoPvc, NoPod, _create_pvc(S, c, w))

\* last.pvc is the pvc_name given
DirectAttachPod ==
    /\ CanCall
    /\ \E pvc_name \in DirectPvcArgs, pick \in PvcPicks(S), c \in CreatePodOutcomes(S), w \in ReadyOutcomes :
         LET r == _attach_pod(S, pvc_name, pick, c, w)
         IN  Direct("attach_pod", pvc_name, r.ret, [r EXCEPT !.ret = (r.ret # NoPod)])

\* the pod_name a caller gives to _delete_pod: None or a test-pod name
DirectPodArgs == {NoPod} \cup PodNames

\* last.pod, last.pvc are the pod_name and the pvc_name given
DirectDeletePod ==
    /\ CanCall
    /\ \E pod_name \in DirectPodArgs, pvc_name \in DirectPvcArgs, pick \in PodPicks(S), d \in DelOutcomes :
         Direct("delete_pod", pvc_name, pod_name, _delete_pod(S, pod_name, pvc_name, FALSE, pick, d))

\* last.pvc is the pvc_name given
DirectDeletePvc ==
    /\ CanCall
    /\ \E pvc_name \in DirectPvcArgs, pick \in PvcPicks(S), d \in DelOutcomes :
         \E po \in PodOutcomes(S, _select_pvc_for_deletion(S, pvc_name, pick)) :
           Direct("delete_pvc", pvc_name, NoPod, _delete_pvc(S, pvc_name, FALSE, pick, po, d))

DirectNext ==
    \/ DirectCreatePvc
    \/ DirectAttachPod
    \/ DirectDeletePod
    \/ DirectDeletePvc

SpecDirect == Init /\ [][DirectNext]_vars

(***************************************************************************)
(* One run of _scenario_concurrent_pvc on its own, for any configured      *)
(* min_pvcs and max_pvcs, on an orchestrator whose run_test has not been   *)
(* called and on which _create_pvc may have been called once.              *)
(***************************************************************************)
\* e is what the step did, fault whether a call of it failed
SoloStep(e, fault) ==
    /\ Meets(fault)
    /\ SetS(e.s)
    /\ sc' = e.sc
    /\ UNCHANGED <<pc, widx, steady_ops, cl, last, log, expired, roulette, wt>>

NotRunYet == pc = "start" /\ sc.step = "idle" /\ scenarios["concurrent_pvc"].runs = 0

SoloCreatePvc ==
    /\ NotRunYet /\ last.seq = 0
    /\ \E c \in SoloCreatePvcOutcomes(S), w \in BoundOutcomes : Direct("create_pvc", NoPvc, NoPod, _create_pvc(S, c, w))

\* lo, hi: scenarios.concurrent_pvc.min_pvcs and max_pvcs as configured
SoloConcurrentBegin ==
    /\ NotRunYet
    /\ \E lo \in 1..MaxSoloPvcs :
         \E hi \in lo..MaxSoloPvcs :
           \E n \in lo..hi : SoloStep(concurrent_begin(S, lo, n), FALSE)

SoloConcurrentCreate ==
    /\ sc.name = "concurrent_pvc" /\ sc.step = "create" /\ sc.i < sc.n
    /\ \E c \in SoloCreatePvcOutcomes(S), w \in BoundOutcomes : SoloStep(concurrent_create(S, sc, c, w), SoloPvcFault(c) \/ w # "bound")

SoloConcurrentCreated ==
    /\ sc.name = "concurrent_pvc" /\ sc.step = "create" /\ sc.i = sc.n
    /\ SoloStep(concurrent_created(S, sc), FALSE)

SoloConcurrentPod ==
    /\ sc.name = "concurrent_pvc" /\ sc.step = "pods" /\ sc.i < sc.n
    /\ \E pvc_name \in sc.todo, pick \in PvcPicks(S), c \in CreatePodOutcomes(S), w \in ReadyOutcomes :
         SoloStep(concurrent_pod(S, sc, pvc_name, pick, c, w), PodFault(c) \/ w # "ready")

SoloConcurrentPodsDone ==
    /\ sc.name = "concurrent_pvc" /\ sc.step = "pods" /\ sc.i = sc.n
    /\ SoloStep(concurrent_pods_done(S, sc), FALSE)

SoloConcurrentDelete ==
    /\ sc.name = "concurrent_pvc" /\ sc.step = "delete" /\ sc.i < sc.n
    /\ \E pvc_name \in sc.todo, pick \in PvcPicks(S), d \in DelOutcomes :
         LET chosen == _select_pvc_for_deletion(S, pvc_name, pick)
         IN  \E po \in PodOutcomes(S, chosen) :
               SoloStep(concurrent_delete(S, sc, pvc_name, pick, po, d), d # "gone" \/ po # AllGone(S, chosen))

SoloConcurrentDone ==
    /\ sc.name = "concurrent_pvc" /\ sc.step = "delete" /\ sc.i = sc.n
    /\ SoloStep(concurrent_done(S), FALSE)

SoloNext ==
    \/ SoloCreatePvc
    \/ SoloConcurrentBegin
    \/ SoloConcurrentCreate
    \/ SoloConcurrentCreated
    \/ SoloConcurrentPod
    \/ SoloConcurrentPodsDone
    \/ SoloConcurrentDelete
    \/ SoloConcurrentDone

SpecConcurrent == Init /\ [][SoloNext]_vars

(***************************************************************************)
(* Properties.                                                             *)
(***************************************************************************)
Ended == pc \in {"returned", "raised"}

\* a scheduled operation op is called in this step
Calls(op) == last'.seq = last.seq + 1 /\ last'.op = op

TrackedPods == UNION {Range(pods[c]) : c \in DOMAIN pods}

\* C1: in every reachable state current_pod_count equals the sum of the
\* lengths of the unit lists in pods.
C1_CountIsSumOfLists == current_pod_count = SumLens(pods, DOMAIN pods)

\* C2: a claim is never removed from the tracker while its unit list is
\* non-empty: what _untrack_deleted_pvc removes with pods[c] is always empty.
C2_UntrackedClaimHasNoUnits == dropped = <<>>

\* C3: in every reachable state the number of tracked claims is at most
\* max_pvcs, whichever operation registered them.
C3_ClaimsWithinCeiling == Len(pvcs) <= max_pvcs

\* C4: create-claim called while the tracker holds max_pvcs claims (or more)
\* is a skip: it returns normally, nothing is submitted to the cluster, the
\* tracker is unchanged and no operation counter changes.
C4_CreateAtCeilingIsSkip == [][(Calls("create_pvc") /\ Len(pvcs) >= max_pvcs) => (~last'.exc /\ cpvc' = cpvc /\ cpod' = cpod /\ pvcs' = pvcs /\ pods' = pods /\ current_pod_count' = current_pod_count /\ results' = results)]_vars

\* the second create-claim of the warm-up has returned, the first one had
\* filled the tracker: one claim tracked, one success, no failure
C4_Witness == last.seq = 2 /\ last.op = "create_pvc" /\ Len(pvcs) = max_pvcs /\ results["create_pvc"] = [success |-> max_pvcs, fail |-> 0] /\ DOMAIN cpvc = Range(pvcs)

\* a step that registers the unit p on the claim c
Registers(c, p) == c \in DOMAIN pods' /\ p \in Range(pods'[c]) /\ p \notin TrackedPods

\* C5: a unit is registered only while current_pod_count is below
\* total_max_pods and the claim has fewer than max_pods_per_pvc units; so
\* every unit list has at most max_pods_per_pvc entries and the tracked units,
\* and the counter, are at most total_max_pods.
C5_AttachWithinCeilings ==
    /\ [](/\ \A c \in DOMAIN pods : Len(pods[c]) <= max_pods_per_pvc
          /\ SumLens(pods, DOMAIN pods) <= total_max_pods
          /\ current_pod_count <= total_max_pods)
    /\ [][\A c \in PvcNames, p \in PodNames : Registers(c, p) => (current_pod_count < total_max_pods /\ (c \in DOMAIN pods => Len(pods[c]) < max_pods_per_pvc))]_vars

\* an attach-unit of the warm-up has chosen a claim that is full and has
\* registered nothing
C5_Witness == last.op = "attach_pod" /\ ~last.ret /\ faults = 0 /\ last.pvc \in DOMAIN pods /\ Len(pods[last.pvc]) = max_pods_per_pvc /\ results["attach_pod"] = [success |-> max_pods_per_pvc, fail |-> 0]

\* C6: delete-unit (delete-claim) called for a tracked unit (claim) that is
\* no longer in the cluster returns success, and the only counter that
\* changes is the operation's success counter, by one.
C6_DeleteAbsentIsSuccess ==
    [][/\ (Calls("delete_pod") /\ last'.pod \in TrackedPods /\ last'.pod \notin DOMAIN cpod) => (last'.ret /\ results' = [results EXCEPT !["delete_pod"].success = @ + 1])
       /\ (Calls("delete_pvc") /\ last'.pvc \in Range(pvcs) /\ last'.pvc \notin DOMAIN cpvc) => (last'.ret /\ results' = [results EXCEPT !["delete_pvc"].success = @ + 1])]_vars

\* C7: none of the six scheduled operations raises to its caller.
C7_NoOperationRaises == ~last.exc

\* C8: when run_test has ended, _cleanup has been executed.
C8_CleanupBeforeEnd == Ended => log.cleanup_started

\* C9: run_test ends by returning a report, made after _cleanup has finished,
\* in which no counter is below its value when the loop was left.
C9_ReportAfterCleanup ==
    Ended => /\ pc = "returned"
             /\ log.cleanup_finished
             /\ \A o \in DOMAIN log.exit_results : log.report.operations[o].success >= log.exit_results[o].success /\ log.report.operations[o].fail >= log.exit_results[o].fail
             /\ \A n \in DOMAIN log.exit_scenarios : n \in DOMAIN log.report.scenarios /\ log.report.scenarios[n].runs >= log.exit_scenarios[n].runs /\ log.report.scenarios[n].success >= log.exit_scenarios[n].success /\ log.report.scenarios[n].fail >= log.exit_scenarios[n].fail

\* C10: once _cleanup has finished, every claim and unit still in the
\* cluster is in what _cleanup logged as remaining resources.
C10_LeftoversAreLogged == log.cleanup_finished => (DOMAIN cpvc \subseteq log.remaining_pvcs /\ DOMAIN cpod \subseteq log.remaining_pods)

\* C11: _cleanup makes at most two deletion passes; the second one runs
\* exactly when the listing taken after the first one is not empty; after the
\* second listing comes the end of _cleanup; a pass works through the lists it
\* took when it began, one deletion at a time; once the passes are over no
\* delete request is sent.
C11_AtMostTwoPasses ==
    /\ [](cl.pass \in 0..2)
    /\ [][/\ cl'.pass # cl.pass => cl'.pass = cl.pass + 1
          /\ (pc = "cleanup_pvcs" /\ pc' # pc /\ cl.pass = 1) => (cl'.pass = 2 <=> log'.remaining_pods \cup log'.remaining_pvcs # {})
          /\ (pc = "cleanup_pvcs" /\ pc' # pc /\ cl.pass = 2) => pc' = "cleanup_end"
          /\ (pc = "cleanup_pods" /\ pc' = pc /\ cl' # cl) => Len(cl'.pods_todo) = Len(cl.pods_todo) - 1
          /\ (pc = "cleanup_pvcs" /\ pc' = pc /\ cl' # cl) => Len(cl'.pvcs_todo) = Len(cl.pvcs_todo) - 1
          /\ pc \in {"cleanup_end", "report", "returned"} => dels' = dels]_vars

\* the forced pass has been made and _cleanup has gone on to its end with a
\* claim still in the cluster
C11_Witness == pc = "cleanup_end" /\ cl.pass = 2 /\ cl.force /\ DOMAIN cpvc # {} /\ log.remaining_pvcs # {}

\* C12: every delete request of cleanup pass 1 is graceful and every delete
\* request of cleanup pass 2 is forced, for units and for claims.
C12_PassesDeleteAsTold == (cl.pass = 1 => \A q \in dels : ~q[2]) /\ (cl.pass = 2 => \A q \in dels : q[2])

\* the operation the spec's roulette selects for the draw d2 (in halves): the
\* first one whose cumulative weight exceeds the draw
FirstExceeding(w, d2) == Min({i \in 1..Len(w) : 2 * _get_cumulative_weights(w)[i] > d2})

\* C13: for a draw in [0, W) the roulette calls exactly one operation, the
\* first one whose cumulative weight exceeds the draw.
C13_RouletteSelectsFirstExceeding == (random_val >= 0 /\ random_val < 2 * total_weight(weights)) => selected = {FirstExceeding(weights, random_val)}

\* the phases of the scheduler: Warmup, SteadyState, Draining, Terminal
Phase(p) ==
    CASE p \in {"start", "warmup"} -> 1
      [] p = "loop" -> 2
      [] p \in {"returned", "raised"} -> 4
      [] OTHER -> 3

\* C14: the phases only follow one another in the order Warmup, SteadyState,
\* Draining, Terminal; the first nine operations called are create-claim
\* twice, attach-unit three times, verify-readwrite, run-scenario, delete-unit
\* and delete-claim, in this order and in Warmup; every later operation is
\* called in SteadyState; nothing of an operation happens once Draining has begun.
C14_PhasesInOrder ==
    [][/\ Phase(pc') >= Phase(pc)
       /\ \A op \in {"create_pvc", "attach_pod", "delete_pod", "delete_pvc", "verify_readwrite", "run_specific_scenario"} :
            Calls(op) => IF last.seq < 9
                         THEN Phase(pc) = 1 /\ op = <<"create_pvc", "create_pvc", "attach_pod", "attach_pod", "attach_pod", "verify_readwrite", "run_specific_scenario", "delete_pod", "delete_pvc">>[last.seq + 1]
                         ELSE Phase(pc) = 2
       /\ Phase(pc) = 2 => last.seq >= 9
       /\ Phase(pc) >= 3 => last' = last]_vars

\* a run that went through the warm-up and one drawn operation, was drained
\* and returned
C14_Witness == pc = "returned" /\ last.seq = 10 /\ log.cleanup_finished

\* C15: in steady state an operation is started only while the budget has
\* not expired; once it has expired no operation is started: the one in
\* flight goes on, and from the top of the loop the scheduler goes to Draining.
C15_NoStartPastBudget ==
    [][/\ (pc = "loop" /\ last'.seq # last.seq) => ~expired
       /\ (pc = "loop" /\ expired /\ sc.step = "idle" /\ pc' # pc) => pc' = "finally"
       /\ (pc = "loop" /\ expired /\ sc.step = "idle") => (last' = last /\ sc' = sc)
       /\ (pc = "loop" /\ expired /\ sc.step # "idle" /\ sc' # sc) => last'.seq = last.seq]_vars

\* the budget has expired while a drawn scenario is in flight
C15_Witness == pc = "loop" /\ expired /\ sc.step # "idle" /\ last.seq = 10 /\ last.op = "run_specific_scenario"

\* C16: the success counter of many_to_one grows only in a run in which at
\* least 2 units became ready on the scenario's own claim, the writer and the
\* reader are two different ones of them, both execs succeeded and the
\* reader's output contains the content written; a run with fewer than 2
\* ready units counts one failure and makes no write or read.
C16_ManyToOneSuccess ==
    [][/\ scenarios'["many_to_one"].success # scenarios["many_to_one"].success =>
            /\ sc.name = "many_to_one" /\ Len(sc.list) >= 2
            /\ sc.pvc \in DOMAIN pods /\ Range(sc.list) \subseteq Range(pods[sc.pvc])
            /\ rwtest'.units = sc.list /\ rwtest'.writer \in Range(sc.list) /\ rwtest'.reader \in Range(sc.list) /\ rwtest'.writer # rwtest'.reader
            /\ rwtest'.execs[1].wr = "ok" /\ rwtest'.execs[1].rd = "ok" /\ Contains(test_content, rwtest'.execs[1].out)
            /\ scenarios'["many_to_one"].success = scenarios["many_to_one"].success + 1
       /\ (sc.name = "many_to_one" /\ sc.step = "pods" /\ sc.i = sc.n /\ Len(sc.list) < 2 /\ sc' # sc /\ pc' \in {"warmup", "loop"}) =>
            /\ scenarios' = [scenarios EXCEPT !["many_to_one"].fail = @ + 1]
            /\ rwtest' = rwtest]_vars

\* a many_to_one run has just been counted a success: its reader printed
\* more than the content
C16_Witness == last.op = "run_specific_scenario" /\ sc = Idle /\ scenarios["many_to_one"] = [runs |-> 1, success |-> 1, fail |-> 0] /\ rwtest.scenario = "many_to_one" /\ rwtest.execs[1].out = <<"other", "content">>

\* C17: a one_to_one run counts as a success only if each of its num_pairs
\* pairs was created and round-trips its own write; a failing pair makes the
\* run count one failure and no success.
C17_OneToOneAllPairs ==
    [][/\ scenarios'["one_to_one"].success # scenarios["one_to_one"].success =>
            /\ sc.name = "one_to_one" /\ Len(sc.list) = sc.n
            /\ Len(rwtest'.execs) = sc.n
            /\ \A j \in 1..Len(rwtest'.execs) : rwtest'.execs[j].wr = "ok" /\ rwtest'.execs[j].rd = "ok" /\ Contains(test_content, rwtest'.execs[j].out)
       /\ (sc.name = "one_to_one" /\ sc.step = "pairs" /\ sc.i = sc.n /\ rwtest' # rwtest /\ ~rwtest'.ok) =>
            scenarios' = [scenarios EXCEPT !["one_to_one"].fail = @ + 1]]_vars

\* C18: a wait that ends with the timeout outcome has captured diagnostics
\* of the awaited resource before it returns failure.
C18_TimeoutCapturesDiagnostics == waited.outcome = "timeout" => (~waited.ret /\ waited.diag)

C20_RejectedCreateCountsFailure ==
    [][/\ (Calls("create_pvc") /\ Len(pvcs) < max_pvcs /\ ~creq'.accepted) =>
            /\ results' = [results EXCEPT !["create_pvc"].fail = @ + 1]
            /\ pvcs' = pvcs /\ pods' = pods /\ current_pod_count' = current_pod_count /\ waited' = waited
       /\ (Calls("attach_pod") /\ pvcs # <<>> /\ current_pod_count < total_max_pods /\ Len(pods[last'.pvc]) < max_pods_per_pvc /\ ~creq'.accepted) =>
            /\ results' = [results EXCEPT !["attach_pod"].fail = @ + 1]
            /\ pvcs' = pvcs /\ pods' = pods /\ current_pod_count' = current_pod_count /\ waited' = waited]_vars

\* an attach-unit of the warm-up had its create request rejected
C20_Witness == last.op = "attach_pod" /\ ~last.ret /\ creq.kind = "pod" /\ ~creq.accepted /\ results["attach_pod"].fail = 1 /\ waited.kind = "pvc_bound"

\* C21: an attach-unit whose ready wait does not confirm readiness returns
\* null and leaves the attach_pod success counter as it was.
C21_UnreadyUnitNotCounted ==
    [][(Calls("attach_pod") /\ pods' # pods /\ waited'.kind = "pod_ready" /\ waited'.name = creq'.name /\ waited'.outcome \in {"timeout", "failed", "not_found"}) =>
            /\ ~last'.ret /\ last'.pod = NoPod
            /\ results'["attach_pod"].success = results["attach_pod"].success]_vars

\* C22: when the delete request of a claim is submitted, the unit list of the
\* claim in the tracker is empty.
C22_ClaimDeletedWithoutUnits == pvcdel.sent => pvcdel.units = <<>>

\* C23: delete-claim calls delete-unit once for every unit tracked on the
\* chosen claim, in the order of the list, before the claim's delete request;
\* it submits the request whatever became of the unit deletions, and waits
\* for the claim's deletion when the request was accepted.
C23_UnitsFirstThenClaim ==
    pvcdel.name # NoPvc => /\ pvcdel.calls = pvcdel.before
                           /\ pvcdel.sent
                           /\ pvcdel.accepted => pvcdel.wait

\* a delete-claim on a claim with two units, one of which stayed tracked, has
\* made its request and waited
C23_Witness == Len(pvcdel.before) = 2 /\ Len(pvcdel.units) = 1 /\ pvcdel.accepted /\ pvcdel.wait /\ last.op = "delete_pvc"

\* C25: delete-unit removes the unit from its claim's list and takes one from
\* current_pod_count only when its deletion wait has seen the unit not found;
\* when it returns failure the lists and the count are as they were.
C25_UntrackOnlyWhenGone ==
    [][Calls("delete_pod") =>
         IF last'.ret
         THEN /\ waited'.kind = "pod_deleted" /\ waited'.name = last'.pod /\ waited'.outcome = "not_found"
              /\ pods' = [pods EXCEPT ![last'.pvc] = Remove(@, last'.pod)]
              /\ current_pod_count' = current_pod_count - 1
         ELSE pods' = pods /\ current_pod_count' = current_pod_count]_vars

\* a delete-unit whose deletion wait timed out: the unit is still tracked
C25_Witness == last.op = "delete_pod" /\ ~last.ret /\ waited.kind = "pod_deleted" /\ waited.outcome = "timeout" /\ waited.name = last.pod /\ last.pod \in TrackedPods

\* C26: a claim whose bind wait timed out is registered in the tracker; a
\* claim leaves the tracker only when it has gone from the cluster; _cleanup
\* takes every tracked claim into its list and makes a delete request for each.
C26_UnboundClaimLeftForCleanup ==
    [][/\ (waited' # waited /\ waited'.kind = "pvc_bound" /\ waited'.outcome = "timeout") => (waited'.name \in Range(pvcs') /\ waited'.name \in DOMAIN pods')
       /\ \A v \in Range(pvcs) \ Range(pvcs') : v \notin DOMAIN cpvc'
       /\ (pc = "cleanup_pods" /\ pc' = "cleanup_pvcs") => cl'.pvcs_todo = pvcs
       /\ (pc = "cleanup_pvcs" /\ pc' = pc /\ cl' # cl) => (pvcdel'.name = Head(cl.pvcs_todo) /\ pvcdel'.sent)]_vars

\* _cleanup is about to delete a claim whose bind wait timed out
C26_Witness == pc = "cleanup_pvcs" /\ waited.kind = "pvc_bound" /\ waited.outcome = "timeout" /\ waited.name \in Range(cl.pvcs_todo) /\ waited.name \in DOMAIN cpvc

\* the scheduled call of op is not a precondition skip
NotSkipped(op) ==
    CASE op = "create_pvc" -> Len(pvcs) < max_pvcs
      [] op = "attach_pod" -> pvcs # <<>> /\ current_pod_count < total_max_pods /\ Len(pods[last'.pvc]) < max_pods_per_pvc
      [] op = "delete_pod" -> TrackedPods # {}
      [] op = "delete_pvc" -> pvcs # <<>>

\* the call of op reached its goal: claim bound, unit ready, resource
\* confirmed deleted
ReachedGoal(op) ==
    CASE op = "create_pvc" -> creq'.accepted /\ waited'.kind = "pvc_bound" /\ waited'.name = creq'.name /\ waited'.outcome = "bound"
      [] op = "attach_pod" -> creq'.accepted /\ waited'.kind = "pod_ready" /\ waited'.name = creq'.name /\ waited'.outcome = "ready"
      [] op = "delete_pod" -> waited'.kind = "pod_deleted" /\ waited'.name = last'.pod /\ waited'.outcome = "not_found" /\ last'.pod \notin TrackedPods'
      [] op = "delete_pvc" -> pvcdel'.wait /\ waited'.kind = "pvc_deleted" /\ waited'.name = pvcdel'.name /\ waited'.outcome = "not_found"

\* C27: a call of create-claim, attach-unit, delete-unit or delete-claim that
\* is not a precondition skip adds one to exactly one of the operation's two
\* counters: to success when it reached its goal, to fail otherwise.
C27_ExactlyOneCounter ==
    [][\A op \in {"create_pvc", "attach_pod", "delete_pod", "delete_pvc"} :
         (Calls(op) /\ NotSkipped(op)) =>
            /\ results'[op].success + results'[op].fail = results[op].success + results[op].fail + 1
            /\ results'[op].success = results[op].success + (IF ReachedGoal(op) THEN 1 ELSE 0)]_vars

\* C24: attach-unit called with a claim name that is not in the tracker
\* submits no unit, registers no unit and leaves current_pod_count as it was.
C24_UnknownClaimAttachesNothing ==
    [][(Calls("attach_pod") /\ last'.pvc # NoPvc /\ last'.pvc \notin Range(pvcs)) =>
            /\ pods' = pods /\ current_pod_count' = current_pod_count
            /\ cpod' = cpod /\ creq' = creq]_vars

\* C28: in the unit-ready wait a read that answers phase Failed or Unknown is
\* the last one: the wait has returned failure at it, and has not returned
\* confirmed.
C28_FailedPhaseIsTerminal ==
    (wt.kind = "pod_ready" /\ wt.terminal) => (wt.ret = "false" /\ wt.seen.code = 200 /\ wt.seen.phase \in {"Failed", "Unknown"})

\* the third read of a ready wait has answered Unknown
C28_Witness == wt.kind = "pod_ready" /\ wt.polls = 3 /\ wt.seen.code = 200 /\ wt.seen.phase = "Unknown" /\ wt.ret = "false"

\* C29: a unit-ready wait takes at most one mid-wait snapshot, and takes it
\* at a poll where the elapsed time is more than half of the timeout.
C29_OneMidWaitSnapshot ==
    /\ [](wt.snaps <= 1)
    /\ [][wt'.snaps # wt.snaps => (wt.kind = "pod_ready" /\ wt.snaps = 0 /\ wt'.snaps = 1 /\ 2 * wt'.elapsed > wt.timeout)]_vars

\* a ready wait has made its fifth poll, which comes after the one that took
\* the snapshot, and goes on
C29_Witness == wt.kind = "pod_ready" /\ wt.polls = 5 /\ wt.snaps = 1 /\ wt.ret = "none"

\* C30: in each wait loop exactly one sleep, of 2 seconds, is made between
\* two consecutive status polls.
C30_OneSleepBetweenPolls ==
    [][(wt'.polls = wt.polls + 1 /\ wt.polls > 0) => (wt.sleeps = 1 /\ wt.slept = PollSleep)]_vars

\* C31: one run of the concurrent scenario calls attach-unit for at most 3
\* claims and delete-claim for at most 3 claims, whatever min_pvcs and max_pvcs
\* are configured; the claims it attaches to and the claims it deletes are
\* claims the run created; a run that created fewer than 2 claims counts one
\* failure and attaches and deletes nothing.
C31_ChurnAtMostThree ==
    [][/\ (sc.name = "concurrent_pvc" /\ sc.step = "pods" /\ sc'.step = "pods" /\ sc'.i = sc.i + 1) =>
            /\ sc'.i <= 3
            /\ \A c \in DOMAIN pods : pods'[c] # pods[c] => c \in Range(sc.list)
       /\ (sc.name = "concurrent_pvc" /\ sc.step = "delete" /\ sc'.step = "delete" /\ sc'.i = sc.i + 1) =>
            /\ sc'.i <= 3
            /\ pvcdel'.name \in Range(sc.list)
       /\ (sc.name = "concurrent_pvc" /\ sc.step = "create" /\ sc.i = sc.n /\ Len(sc.list) < 2 /\ sc' # sc /\ pc' = pc) =>
            /\ scenarios' = [scenarios EXCEPT !["concurrent_pvc"].fail = @ + 1]
            /\ sc' = Idle /\ pods' = pods /\ pvcs' = pvcs /\ cpod' = cpod /\ cpvc' = cpvc /\ creq' = creq /\ dels' = dels]_vars

\* the position of the first delete request for a claim in the pass (0: none yet)
FirstClaimRequest == IF \E j \in 1..Len(sweep.reqs) : sweep.reqs[j][1] = "pvc" THEN Min({j \in 1..Len(sweep.reqs) : sweep.reqs[j][1] = "pvc"}) ELSE 0

\* C32: in a cleanup pass a delete request has been made for every unit that
\* was tracked when the pass began before the first delete request for a
\* claim is made.
C32_UnitsBeforeClaims ==
    FirstClaimRequest > 0 => \A u \in sweep.units : \E i \in 1..(FirstClaimRequest - 1) : sweep.reqs[i] = <<"pod", u>>

\* a pass that found two units tracked has made the requests for both and
\* then its first request for a claim
C32_Witness == cl.pass = 1 /\ Cardinality(sweep.units) = 2 /\ FirstClaimRequest = 3 /\ Len(sweep.reqs) = 3

C34_WaitTerminates ==
    /\ <>(wt.ret # "none")
    /\ [](wt.polls <= (wt.timeout \div PollSleep) + 1)
    /\ [][LET a == wt'.seen
              deletion == wt.kind \in {"pod_deleted", "pvc_deleted"}
          IN  /\ wt.ret = "none"
              /\ wt'.polls = wt.polls + 1 =>
                    /\ wt.now < wt.timeout
                    /\ a.code = 404 => wt'.ret = (IF deletion THEN "true" ELSE "false")
                    /\ (wt.kind = "pod_ready" /\ a.code = 200 /\ a.phase = "Running" /\ a.cond) => wt'.ret = "true"
                    /\ (wt.kind = "pod_ready" /\ a.code = 200 /\ a.phase \in {"Failed", "Unknown"}) => wt'.ret = "false"
                    /\ (wt.kind = "pvc_bound" /\ a.code = 200 /\ a.phase = "Bound") => wt'.ret = "true"
                    /\ a.code = 500 => wt'.ret = "none"
              /\ wt'.polls = wt.polls => (wt.now >= wt.timeout /\ wt'.ret = "false")]_vars

\* a claim-bound wait with timeout 9 whose five reads, at 0, 2, 4, 6 and 8
\* seconds, were all answered by a server error has returned false
C34_Witness == wt.kind = "pvc_bound" /\ wt.timeout = MinWaitTimeout /\ wt.polls = (MinWaitTimeout \div PollSleep) + 1 /\ wt.seen.code = 500 /\ wt.now >= wt.timeout /\ wt.ret = "false"

\* C35: current_pod_count is never negative, never less than the number of
\* units held in the lists of pods, and never more than total_max_pods.
C35_CountBoundsUnits ==
    /\ current_pod_count >= 0
    /\ current_pod_count >= SumLens(pods, DOMAIN pods)
    /\ current_pod_count <= total_max_pods

\* attach-unit was refused with the counter at total_max_pods after a claim
\* was untracked with a unit in its list: the lists hold fewer units than
\* the counter says
C35_Witness == last.op = "attach_pod" /\ ~last.ret /\ current_pod_count = total_max_pods /\ SumLens(pods, DOMAIN pods) < total_max_pods /\ pvcs # <<>> /\ dropped # <<>>

\* C36: the keys of pods are the names in pvcs, pvcs holds no name twice, no
\* list of pods holds a unit name twice and no unit name is in the lists of
\* two claims.
C36_TrackerWellFormed ==
    /\ DOMAIN pods = Range(pvcs)
    /\ \A i, j \in 1..Len(pvcs) : pvcs[i] = pvcs[j] => i = j
    /\ \A c \in DOMAIN pods : \A i, j \in 1..Len(pods[c]) : pods[c][i] = pods[c][j] => i = j
    /\ \A c, d \in DOMAIN pods : c # d => Range(pods[c]) \cap Range(pods[d]) = {}

\* two claims are tracked, each with a unit, after a claim was deleted and
\* untracked
C36_Witness == Len(pvcs) = 2 /\ (\A c \in DOMAIN pods : pods[c] # <<>>) /\ results["delete_pvc"].success = 1 /\ Cardinality(TrackedPods) >= 2

\* C37: whenever no scenario is executing, every scenario kind that has
\* counters has runs = success + fail.
C37_RunsAreSuccessPlusFail ==
    sc.step = "idle" => \A k \in DOMAIN scenarios : scenarios[k].runs = scenarios[k].success + scenarios[k].fail

\* C39: one call of _verify_readwrite made while a claim has two units or
\* more changes the verify_write counters by exactly one in total and the
\* verify_read counters by at most one in total; a call made while no claim
\* has two units changes no counter.
C39_OneWriteCountPerVerify ==
    [][Calls("verify_readwrite") =>
         LET dw == (results'["verify_write"].success + results'["verify_write"].fail) - (results["verify_write"].success + results["verify_write"].fail)
             dr == (results'["verify_read"].success + results'["verify_read"].fail) - (results["verify_read"].success + results["verify_read"].fail)
         IN  IF shared_pvcs(S) = {} THEN results' = results /\ scenarios' = scenarios
             ELSE dw = 1 /\ dr \in {0, 1}]_vars

\* C38: _delete_pvc called with a claim name and _delete_pod called with a
\* unit name and its claim change, in the tracker and in the cluster, nothing
\* but the named target (for _delete_pvc: the claim and the units on it);
\* when the named target is not tracked they change nothing.
C38_OnlyTheNamedTarget ==
    [][/\ (Calls("delete_pvc") /\ last'.pvc # NoPvc) =>
            /\ \A c \in DOMAIN pods \ {last'.pvc} : c \in DOMAIN pods' /\ pods'[c] = pods[c]
            /\ \A c \in Range(pvcs) \ {last'.pvc} : c \in Range(pvcs')
            /\ \A c \in DOMAIN cpvc \ {last'.pvc} : c \in DOMAIN cpvc' /\ cpvc'[c] = cpvc[c]
            /\ \A p \in DOMAIN cpod : cpod[p].pvc # last'.pvc => (p \in DOMAIN cpod' /\ cpod'[p] = cpod[p])
            /\ last'.pvc \notin Range(pvcs) => (pvcs' = pvcs /\ pods' = pods /\ cpvc' = cpvc /\ cpod' = cpod)
       /\ (Calls("delete_pod") /\ last'.pod # NoPod /\ last'.pvc # NoPvc) =>
            /\ \A c \in DOMAIN pods : c \in DOMAIN pods' /\ Range(pods[c]) \ Range(pods'[c]) \subseteq {last'.pod}
            /\ \A p \in DOMAIN cpod \ {last'.pod} : p \in DOMAIN cpod' /\ cpod'[p] = cpod[p]
            /\ pvcs' = pvcs /\ cpvc' = cpvc
            /\ last'.pod \notin TrackedPods => (pods' = pods /\ cpod' = cpod)]_vars


====
